---- MODULE Spec2Model ----
(***************************************************************************)
(* A model of the context-lens knowledge base server: the tool layer of    *)
(* server.py, the DocumentService pipeline of document_service.py, and the *)
(* collaborators the pipeline calls (content extractor, embedding          *)
(* component, vector store), which are modelled from their contracts.      *)
(*                                                                         *)
(* Tool invocations are coroutines on one event loop: a step of the model  *)
(* is the code a coroutine runs between two suspension points (awaits of   *)
(* model inference and storage calls).                                     *)
(***************************************************************************)
EXTENDS Integers, Sequences, FiniteSets, TLC

\* ------------------------------------------------------------------ bounds
NumTasks == 2        \* concurrent tool invocations
MaxCalls == 3        \* tool calls started in one behaviour
TextLen == 5         \* characters of the longest file
ChunkSize == 3       \* config.processing.chunk_size
ChunkOverlap == 1    \* config.processing.chunk_overlap (< ChunkSize)
EmbedMod == 4        \* number of distinct embedding values
MaxFileSize == 8     \* config.processing.max_file_size, in characters

Tasks == 1..NumTasks

None == -1           \* Python's None for ids, limits and embeddings

\* ------------------------------------------------------------- file system
Text(n) == [i \in 1..n |-> i]

\* The files a caller can name.  "" is rejected by parameter validation and
\* x.bin has an unsupported extension.
Paths == {"", "a.txt", "b.txt", "x.bin"}

FileText(path) ==
    CASE path = "a.txt" -> Text(TextLen)
      [] path = "b.txt" -> Text(2)
      [] OTHER -> << >>

Supported(path) == path \in {"a.txt", "b.txt"}

\* A file is a sequence of structural units (a plain text is one unit), each
\* a sequence of characters.  opened tells whether a reader has opened it.
File(supported, kind, units) ==
    [supported |-> supported, readable |-> TRUE, decodable |-> TRUE,
     kind |-> kind, units |-> units, opened |-> FALSE]

\* The files on the server's disk.
FileSystem ==
    [p \in Paths \ {""} |->
        File(Supported(p), "text",
             IF FileText(p) = << >> THEN << >> ELSE <<FileText(p)>>)]

RECURSIVE Flatten(_)
Flatten(units) ==
    IF units = << >> THEN << >> ELSE Head(units) \o Flatten(Tail(units))

\* Queries are character sequences; 0 is a blank.
Queries == {<< >>, <<0>>, <<1>>, <<2>>}

RECURSIVE Strip(_)
Strip(s) ==
    IF s = << >> THEN s
    ELSE IF Head(s) = 0 THEN Strip(Tail(s))
    ELSE IF s[Len(s)] = 0 THEN Strip(SubSeq(s, 1, Len(s) - 1))
    ELSE s

Min(a, b) == IF a < b THEN a ELSE b

\* ------------------------------------------------------ content extractor
\* Variant of SlidingWindow: only full windows are cut, the shorter rest of
\* the text is dropped.
RECURSIVE SlidingWindowDropsTail(_, _, _, _)
SlidingWindowDropsTail(text, start, size, overlap) ==
    IF start + size > Len(text) THEN << >>
    ELSE <<SubSeq(text, start + 1, start + size)>> \o
         SlidingWindowDropsTail(text, start + size - overlap, size, overlap)

\* Variant of SlidingWindow: each window starts where the previous one ends.
RECURSIVE SlidingWindowNoOverlap(_, _, _, _)
SlidingWindowNoOverlap(text, start, size, overlap) ==
    IF start >= Len(text) THEN << >>
    ELSE <<SubSeq(text, start + 1, Min(start + size, Len(text)))>> \o
         SlidingWindowNoOverlap(text, start + size, size, overlap)

\* Variant of SlidingWindow: windows are cut while the start is inside the
\* text, so one more window follows the window that reaches the end.
RECURSIVE SlidingWindowExtraTail(_, _, _, _)
SlidingWindowExtraTail(text, start, size, overlap) ==
    IF start >= Len(text) THEN << >>
    ELSE <<SubSeq(text, start + 1, Min(start + size, Len(text)))>> \o
         SlidingWindowExtraTail(text, start + size - overlap, size, overlap)

\* Variant of SlidingWindow: the overlap is taken off the step twice, and
\* the step is at least one character.
RECURSIVE SlidingWindowDoubleOverlap(_, _, _, _)
SlidingWindowDoubleOverlap(text, start, size, overlap) ==
    IF Len(text) = 0 THEN << >>
    ELSE LET e == Min(start + size, Len(text))
             step == IF size - 2 * overlap > 1 THEN size - 2 * overlap ELSE 1
         IN  <<SubSeq(text, start + 1, e)>> \o
             (IF start + size >= Len(text) THEN << >>
              ELSE SlidingWindowDoubleOverlap(text, start + step, size,
                                              overlap))

\* Sliding window of size characters, each window starting size - overlap
\* after the previous one; the window that reaches the end of the text is
\* the last.
RECURSIVE SlidingWindow(_, _, _, _)
SlidingWindow(text, start, size, overlap) ==
    IF Len(text) = 0 THEN << >>
    ELSE LET e == Min(start + size, Len(text))
         IN  <<SubSeq(text, start + 1, e)>> \o
             (IF start + size >= Len(text) THEN << >>
              ELSE SlidingWindow(text, start + size - overlap, size, overlap))

\* The windows of a text under the server's configuration.
Windows(text, start) == SlidingWindow(text, start, ChunkSize, ChunkOverlap)

\* Source code is split at the boundaries of its structural units: units are
\* gathered into a chunk while they fit in size, and a unit longer than size
\* is cut by the sliding window.  cur is the chunk being gathered.
RECURSIVE SourceChunks(_, _, _, _)
SourceChunks(units, cur, size, overlap) ==
    LET flush == IF cur = << >> THEN << >> ELSE <<cur>>
    IN  IF units = << >> THEN flush
        ELSE LET u == Head(units)
             IN  IF Len(u) > size
                 THEN flush \o SlidingWindow(u, 0, size, overlap)
                      \o SourceChunks(Tail(units), << >>, size, overlap)
                 ELSE IF Len(cur) + Len(u) <= size
                 THEN SourceChunks(Tail(units), cur \o u, size, overlap)
                 ELSE flush \o SourceChunks(Tail(units), u, size, overlap)

\* Variant of ChunkContents: every file is chunked as plain text.
ChunkContentsAllText(file, size, overlap) ==
    SlidingWindow(Flatten(file.units), 0, size, overlap)

\* The chunk contents of a file, by the strategy of its kind.
ChunkContents(file, size, overlap) ==
    IF file.kind = "source"
    THEN SourceChunks(file.units, << >>, size, overlap)
    ELSE SlidingWindow(Flatten(file.units), 0, size, overlap)

\* The metadata of no document (Python's None where a record is expected).
NoMetadata == [id |-> None, file_path |-> "", chunk_count |-> 0]

MakeChunks(id, ws) ==
    [i \in 1..Len(ws) |->
        [document_id |-> id, chunk_index |-> i - 1,
         content |-> ws[i], embedding |-> None]]

\* A FileProcessingError; read tells whether the file was opened before it.
FileProcessingError(error_type, read) ==
    [ok |-> FALSE, error_type |-> error_type, metadata |-> NoMetadata,
     chunks |-> << >>, read |-> read]

\* extract_and_chunk(file_path): metadata and chunks, or a
\* FileProcessingError.  Extension and size are checked before the file is
\* read; reading and decoding can fail.
extract_and_chunk(extractor, file_path, file, id) ==
    IF ~file.supported
    THEN FileProcessingError("unsupported_file_type", FALSE)
    ELSE IF Len(Flatten(file.units)) > extractor.max_file_size
    THEN FileProcessingError("file_too_large", FALSE)
    ELSE IF ~file.readable
    THEN FileProcessingError("file_read_error", TRUE)
    ELSE IF ~file.decodable
    THEN FileProcessingError("encoding_error", TRUE)
    ELSE LET ws == ChunkContents(file, extractor.chunk_size,
                                 extractor.chunk_overlap)
         IN  [ok |-> TRUE, error_type |-> "",
              metadata |-> [id |-> id, file_path |-> file_path,
                            chunk_count |-> Len(ws)],
              chunks |-> MakeChunks(id, ws), read |-> TRUE]

\* ----------------------------------------------------- embedding component
\* The sum of a sequence, taken by halves.
RECURSIVE SumSeq(_)
SumSeq(s) ==
    IF s = << >> THEN 0
    ELSE IF Len(s) = 1 THEN s[1]
    ELSE LET h == Len(s) \div 2
         IN  SumSeq(SubSeq(s, 1, h)) + SumSeq(SubSeq(s, h + 1, Len(s)))

\* generate_embedding(text): a deterministic vector (here one number).
generate_embedding(text) == SumSeq(text) % EmbedMod

\* generate_embeddings(texts): order-preserving, one vector per input.
generate_embeddings(texts) ==
    [i \in 1..Len(texts) |-> generate_embedding(texts[i])]

Abs(x) == IF x < 0 THEN -x ELSE x

\* The store's distance between a query vector and a chunk vector.
Distance(q, e) == Abs(q - e)

\* ------------------------------------------------------------ vector store
\* The two tables are sequences of rows in insertion order.
DocIds(docs) == {docs[i].id : i \in 1..Len(docs)}

ChunksOf(chs, id) == {i \in 1..Len(chs) : chs[i].document_id = id}

\* add_document_vectors(metadata, chunks): one logical unit; refused when
\* the chunk count does not match or a chunk carries no embedding.
WriteAccepted(metadata, chs) ==
    /\ metadata.chunk_count = Len(chs)
    /\ \A i \in 1..Len(chs) : chs[i].embedding # None

add_document_vectors(st, metadata, chs) ==
    [documents |-> Append(st.documents, metadata),
     chunks |-> st.chunks \o chs]

\* clear_all_documents(): every row of both tables.
clear_all_documents(st) == [documents |-> << >>, chunks |-> << >>]

get_document_count(st) == Len(st.documents)

\* list_all_documents(limit, offset): documents[offset : offset + limit].
list_all_documents(st, limit, offset) ==
    LET n == Len(st.documents)
        hi == IF limit = None THEN n ELSE Min(n, offset + limit)
    IN  SubSeq(st.documents, offset + 1, hi)

\* get_document_metadata(document_id): the row, or None.
get_document_metadata(st, id) ==
    IF id \in DocIds(st.documents)
    THEN LET i == CHOOSE j \in 1..Len(st.documents) :
                     st.documents[j].id = id
         IN  st.documents[i]
    ELSE NoMetadata

\* Order of the matches: distance, then chunk_index, then document_id.
Nearer(q, a, b) ==
    LET da == Distance(q, a.embedding)
        db == Distance(q, b.embedding)
    IN  \/ da < db
        \/ da = db /\ a.chunk_index < b.chunk_index
        \/ da = db /\ a.chunk_index = b.chunk_index
                   /\ a.document_id <= b.document_id

RECURSIVE Ranked(_, _, _)
Ranked(q, chs, left) ==
    IF left = {} THEN << >>
    ELSE LET i == CHOOSE j \in left :
                     \A k \in left : Nearer(q, chs[j], chs[k])
         IN  <<chs[i]>> \o Ranked(q, chs, left \ {i})

Hit(q, c) ==
    [document_id |-> c.document_id, content |-> c.content,
     chunk_index |-> c.chunk_index, score |-> Distance(q, c.embedding)]

\* search_vectors(query_vector, limit): the limit nearest chunks.
search_vectors(st, q, limit) ==
    LET r == Ranked(q, st.chunks, 1..Len(st.chunks))
    IN  [i \in 1..Min(limit, Len(r)) |-> Hit(q, r[i])]

\* ------------------------------------------------------------ configuration
\* The settings of a Config object that the pipeline depends on.
DefaultConfig ==
    [path |-> "knowledge_base.db", chunk_size |-> ChunkSize,
     chunk_overlap |-> ChunkOverlap, max_file_size |-> MaxFileSize,
     model |-> "model"]

\* No configuration object.
NoConfig ==
    [path |-> "", chunk_size |-> 0, chunk_overlap |-> 0, max_file_size |-> 0,
     model |-> ""]

\* The server process: environ is the configuration its environment
\* variables describe, config_file the one the file named by --config
\* holds, args the command line, config the local variable of main(), and
\* main the position of main().
Process(environ, config_file, args, config, main) ==
    [environ |-> environ, config_file |-> config_file, args |-> args,
     config |-> config, main |-> main]

NoArgs == [config |-> FALSE, db_path |-> ""]

\* A process started without arguments whose main() has validated config.
Started(config) == Process(config, config, NoArgs, config, "started")

\* ------------------------------------------------------------------- state
VARIABLES
    process,           \* the server process: environment, arguments, main()
    document_service,  \* server._document_service: 0 is None, else an instance
    services,          \* the DocumentService instances constructed so far
    store,             \* the persisted tables: documents and chunks
    nextId,            \* source of fresh document ids
    files,             \* the files on disk
    pc,                \* each task's position
    call,              \* each task's tool call and its parameters
    svc,               \* the instance get_document_service gave the task
    loc,               \* each task's local variables
    last,              \* the latest tool response, until the next call
    running,           \* the task the event loop is running (0: none)
    calls,             \* tool calls started
    cleared,           \* ids of the documents a clear has removed
    resets,            \* times cleanup_server has reset the module global
    addLog             \* the add_document responses given so far

vars == <<process, document_service, services, store, nextId, files, pc,
          call, svc, loc, last, running, calls, cleared, resets, addLog>>

NoCall == [op |-> "none", file_path |-> "", query |-> << >>,
           limit |-> None, offset |-> 0, document_id |-> None]

NoLoc == [metadata |-> NoMetadata, chunks |-> << >>, qvec |-> None,
          hits |-> << >>, k |-> 0, joined |-> << >>, docs |-> << >>,
          removed |-> 0, persisted |-> 0, snaps |-> {}]

NoRes == [done |-> FALSE, success |-> FALSE, error_type |-> "",
          error_message |-> "", error_details |-> "", body |-> None]

\* The positions at which a search_documents call is in flight.
SearchPcs == {"s_embed", "s_vec", "s_join"}

\* A failure envelope.
Failure(error_type, message, details) ==
    [done |-> TRUE, success |-> FALSE, error_type |-> error_type,
     error_message |-> message, error_details |-> details, body |-> None]

\* A success envelope.
Success(body) ==
    [done |-> TRUE, success |-> TRUE, error_type |-> "",
     error_message |-> "", error_details |-> "", body |-> body]

\* No response yet.
NoLast == [op |-> "", out |-> "none", res |-> NoRes]

\* create_error_response(e, context): the tool layer's envelope for a fault
\* that reached it.
create_error_response(operation) ==
    Failure("internal_error", "unexpected error", operation)

Init ==
    /\ process = Started(DefaultConfig)
    /\ document_service = 0
    /\ services = << >>
    /\ store = [documents |-> << >>, chunks |-> << >>]
    /\ nextId = 1
    /\ files = FileSystem
    /\ pc = [t \in Tasks |-> "idle"]
    /\ call = [t \in Tasks |-> NoCall]
    /\ svc = [t \in Tasks |-> 0]
    /\ loc = [t \in Tasks |-> NoLoc]
    /\ last = NoLast
    /\ running = 0
    /\ calls = 0
    /\ cleared = {}
    /\ resets = 0
    /\ addLog = {}

\* A store mutation is seen by every search_documents call in flight.
Observed(newStore) ==
    [u \in Tasks |->
        IF pc[u] \in SearchPcs
        THEN [loc[u] EXCEPT !.snaps = @ \cup {newStore}]
        ELSE loc[u]]

\* DocumentService._ensure_initialized
ensure_initialized(t) == services[svc[t]].initialized

\* The event loop runs one coroutine at a time, up to its next suspension.
Scheduled(t) == running \in {0, t}

\* The coroutine suspends at an await of I/O, at position p.
Suspend(t, p) ==
    /\ pc' = [pc EXCEPT ![t] = p]
    /\ running' = 0
    /\ UNCHANGED <<last, call>>

\* The same, for a coroutine that keeps the service it holds.
Await(t, p) == Suspend(t, p) /\ UNCHANGED svc

\* The tool call c of task t ends with response r; o tells how the
\* pipeline's method ended for the tool ("none" when it was not reached).
\* The coroutine and its locals are gone.
FinishCall(t, c, o, r) ==
    /\ last' = [op |-> c.op, out |-> o, res |-> r]
    /\ pc' = [pc EXCEPT ![t] = "idle"]
    /\ call' = [call EXCEPT ![t] = NoCall]
    /\ svc' = [svc EXCEPT ![t] = 0]
    /\ loc' = [loc EXCEPT ![t] = NoLoc]
    /\ running' = 0

Finish(t, o, r) == FinishCall(t, call[t], o, r)

\* The pipeline raised a fault: the tool's except clause answers.
Raised(t) == Finish(t, "raised", create_error_response(call[t].op))

\* The pipeline returned a result, which the tool passes on.
Returned(t, r) == Finish(t, "returned", r)

\* ---------------------------------------------------------------- tool layer
ToolCalls ==
    {[NoCall EXCEPT !.op = "add", !.file_path = f] : f \in Paths}
    \cup {[NoCall EXCEPT !.op = "list", !.limit = l, !.offset = l] :
             l \in {0, 1}}
    \cup {[NoCall EXCEPT !.op = "list", !.limit = 1, !.offset = -1]}
    \cup {[NoCall EXCEPT !.op = "search", !.query = q, !.limit = 3] :
             q \in Queries}
    \cup {[NoCall EXCEPT !.op = "search", !.query = <<1>>, !.limit = 0]}
    \cup {[NoCall EXCEPT !.op = "clear"], [NoCall EXCEPT !.op = "cleanup"]}

\* validate_file_path, validate_query_parameter, validate_limit_parameter,
\* validate_offset_parameter
ValidParameters(c) ==
    /\ c.op = "add" => c.file_path # ""
    /\ c.op = "search" => Len(c.query) >= 1 /\ c.limit >= 1
    /\ c.op = "list" => c.limit >= 0 /\ c.offset >= 0

\* Variant of Normalized: list_documents hands limit 0 on as it is.
NormalizedKeepsZero(c) ==
    CASE c.op = "search" -> [c EXCEPT !.query = Strip(c.query)]
      [] OTHER -> c

\* The parameters the tool hands to the pipeline: list_documents turns
\* limit 0 into None, search_documents strips the query.
Normalized(c) ==
    CASE c.op = "list" /\ c.limit = 0 -> [c EXCEPT !.limit = None]
      [] c.op = "search" -> [c EXCEPT !.query = Strip(c.query)]
      [] OTHER -> c

\* ContentExtractor(chunk_size, chunk_overlap), with the size policy of the
\* configuration.
ContentExtractor(chunk_size, chunk_overlap, max_file_size) ==
    [chunk_size |-> chunk_size, chunk_overlap |-> chunk_overlap,
     max_file_size |-> max_file_size]

\* DocumentService(config): the components are constructed from config and
\* nothing is initialized yet.  cleaned tells whether cleanup() has returned
\* since the last initialize() that succeeded.
DocumentService(config) ==
    [initialized |-> FALSE, initRuns |-> 0, db |-> "new", model |-> "unloaded",
     cleaned |-> FALSE, config |-> config,
     content_extractor |->
         ContentExtractor(config.chunk_size, config.chunk_overlap,
                          config.max_file_size)]

\* Config.from_env(): the configuration of the environment variables.
Config_from_env == process.environ

\* config = Config.from_env(); DocumentService(config)
NewService == DocumentService(Config_from_env)

\* Variant of Start: the tool gets the document service before it validates
\* its parameters.
StartServiceFirst(t) ==
    /\ pc[t] = "idle"
    /\ \A u \in Tasks : u < t => pc[u] # "idle"
    /\ running = 0
    /\ calls < MaxCalls
    /\ calls' = calls + 1
    /\ \E c \in ToolCalls :
        IF ~ValidParameters(c)
        THEN /\ FinishCall(t, c, "none",
                        Failure("validation_error", "invalid parameter", c.op))
             /\ IF document_service = 0
                THEN /\ services' = Append(services, NewService)
                     /\ document_service' = Len(services) + 1
                ELSE UNCHANGED <<document_service, services>>
        ELSE /\ call' = [call EXCEPT ![t] = Normalized(c)]
             /\ pc' = [pc EXCEPT ![t] =
                     IF c.op = "cleanup" THEN "cleanup" ELSE "gds"]
             /\ running' = t
             /\ last' = NoLast
             /\ UNCHANGED <<svc, loc, document_service, services>>
    /\ UNCHANGED <<process, files, store, nextId, cleared, resets, addLog>>

\* A tool is invoked with one of the calls cs: parameter validation, before
\* the pipeline is touched.  Invocations are interchangeable, so a new one
\* takes the lowest free slot.
Invoke(t, cs) ==
    /\ pc[t] = "idle"
    /\ \A u \in Tasks : u < t => pc[u] # "idle"
    /\ running = 0
    /\ calls < MaxCalls
    /\ calls' = calls + 1
    /\ \E c \in cs :
        IF ~ValidParameters(c)
        THEN FinishCall(t, c, "none",
                        Failure("validation_error", "invalid parameter", c.op))
        ELSE /\ call' = [call EXCEPT ![t] = Normalized(c)]
             /\ pc' = [pc EXCEPT ![t] =
                     IF c.op = "cleanup" THEN "cleanup" ELSE "gds"]
             /\ running' = t
             /\ last' = NoLast
             /\ UNCHANGED <<svc, loc>>
    /\ UNCHANGED <<process, files, document_service, services, store, nextId,
                   cleared, resets, addLog>>

\* A tool is invoked with any of the calls in the bounds.
Start(t) == Invoke(t, ToolCalls)

\* Variant of GetDocumentServiceFirst: the new instance is bound to a local
\* name and the module global stays None.
GetDocumentServiceNoGlobal(t) ==
    /\ pc[t] = "gds" /\ Scheduled(t)
    /\ document_service = 0
    /\ services' = Append(services, [NewService EXCEPT !.initRuns = 1])
    /\ svc' = [svc EXCEPT ![t] = Len(services) + 1]
    /\ Suspend(t, "init_db")
    /\ UNCHANGED <<process, files, document_service, store, nextId, loc,
                   calls, cleared, resets, addLog>>

\* get_document_service, when no instance exists: construct one, publish it
\* and start its initialize().
GetDocumentServiceFirst(t) ==
    /\ pc[t] = "gds" /\ Scheduled(t)
    /\ document_service = 0
    /\ services' = Append(services, [NewService EXCEPT !.initRuns = 1])
    /\ document_service' = Len(services) + 1
    /\ svc' = [svc EXCEPT ![t] = Len(services) + 1]
    /\ Suspend(t, "init_db")
    /\ UNCHANGED <<process, files, store, nextId, loc, calls, cleared, resets,
                   addLog>>

\* get_document_service, when an instance exists: return it as it is.
GetDocumentServiceCached(t) ==
    /\ pc[t] = "gds" /\ Scheduled(t)
    /\ document_service # 0
    /\ svc' = [svc EXCEPT ![t] = document_service]
    /\ pc' = [pc EXCEPT ![t] = "call"]
    /\ running' = t
    /\ UNCHANGED <<process, files, document_service, services, store, nextId,
                   call, loc, last, calls, cleared, resets, addLog>>

\* initialize() raised: get_document_service lets it through.  A tool
\* answers with an error envelope; main() goes on to the cleanup_server() of
\* its finally clause.
InitFailed(t) ==
    IF call[t].op = "initialize_server"
    THEN /\ call' = [call EXCEPT ![t].op = "cleanup"]
         /\ pc' = [pc EXCEPT ![t] = "cleanup"]
         /\ running' = t
         /\ UNCHANGED <<last, svc, loc>>
    ELSE Finish(t, "none", create_error_response(call[t].op))

\* DocumentService.initialize: db_manager.initialize_database() ends.
InitializeDatabase(t) ==
    /\ pc[t] = "init_db" /\ running = 0
    /\ \E ok \in BOOLEAN :
        IF ok
        THEN /\ services' = [services EXCEPT ![svc[t]].db = "ready"]
             /\ Await(t, "init_model")
             /\ UNCHANGED loc
        ELSE /\ InitFailed(t)
             /\ UNCHANGED services
    /\ UNCHANGED <<process, files, document_service, store, nextId, calls,
                   cleared, resets, addLog>>

\* DocumentService.initialize: embedding_service.load_model() ends; on
\* success the service is marked initialized and handed to the caller.
InitializeModel(t) ==
    /\ pc[t] = "init_model" /\ running = 0
    /\ \E ok \in BOOLEAN :
        IF ok
        THEN /\ services' = [services EXCEPT ![svc[t]].model = "loaded",
                                             ![svc[t]].initialized = TRUE,
                                             ![svc[t]].cleaned = FALSE]
             /\ pc' = [pc EXCEPT ![t] = "call"]
             /\ running' = t
             /\ UNCHANGED <<last, call, svc, loc>>
        ELSE /\ InitFailed(t)
             /\ UNCHANGED services
    /\ UNCHANGED <<process, files, document_service, store, nextId, calls,
                   cleared, resets, addLog>>

\* ------------------------------------------------------------- add_document
\* The record of an add_document response in the log of responses.
Logged(t, success) ==
    addLog \cup {[id |-> loc[t].metadata.id, success |-> success,
                  chunk_count |-> loc[t].metadata.chunk_count,
                  persisted |-> loc[t].persisted]}

IngestionError(t) ==
    Failure("document_ingestion_error", "Failed to add document",
            call[t].file_path)

\* Variant of AddDocumentBegin: the document's metadata row is written as
\* soon as the file is extracted, before its chunks are embedded.
AddDocumentBeginRegisters(t) ==
    /\ pc[t] = "call" /\ Scheduled(t)
    /\ call[t].op = "add"
    /\ IF ~ensure_initialized(t)
       THEN /\ Raised(t)
            /\ UNCHANGED <<nextId, store, files>>
       ELSE LET p == call[t].file_path
                e == extract_and_chunk(services[svc[t]].content_extractor,
                                       p, files[p], nextId)
            IN  /\ files' = IF e.read
                            THEN [files EXCEPT ![p].opened = TRUE]
                            ELSE files
                /\ IF ~e.ok
                   THEN /\ Returned(t, Failure(e.error_type,
                                       "file processing failed", p))
                        /\ UNCHANGED <<nextId, store>>
                   ELSE /\ nextId' = nextId + 1
                        /\ store' = [store EXCEPT
                                       !.documents = Append(@, e.metadata)]
                        /\ loc' = [loc EXCEPT ![t].metadata = e.metadata,
                                              ![t].chunks = e.chunks]
                        /\ Await(t, IF e.chunks # << >> THEN "add_embed"
                                    ELSE "add_store")
    /\ UNCHANGED <<process, document_service, services, calls, cleared,
                   resets, addLog>>

\* Variant of AddDocumentBegin: a FileProcessingError is not caught on its
\* own and ends in the generic except clause.
AddDocumentBeginGenericError(t) ==
    /\ pc[t] = "call" /\ Scheduled(t)
    /\ call[t].op = "add"
    /\ IF ~ensure_initialized(t)
       THEN /\ Raised(t)
            /\ UNCHANGED <<nextId, files>>
       ELSE LET p == call[t].file_path
                e == extract_and_chunk(services[svc[t]].content_extractor,
                                       p, files[p], nextId)
            IN  /\ files' = IF e.read
                            THEN [files EXCEPT ![p].opened = TRUE]
                            ELSE files
                /\ IF ~e.ok
                   THEN /\ Returned(t, IngestionError(t))
                        /\ UNCHANGED nextId
                   ELSE /\ nextId' = nextId + 1
                        /\ loc' = [loc EXCEPT ![t].metadata = e.metadata,
                                              ![t].chunks = e.chunks]
                        /\ Await(t, IF e.chunks # << >> THEN "add_embed"
                                    ELSE "add_store")
    /\ UNCHANGED <<process, document_service, services, store, calls, cleared,
                   resets, addLog>>

\* add_document up to its first await: _ensure_initialized, then
\* extract_and_chunk; a FileProcessingError is answered at once.
AddDocumentBegin(t) ==
    /\ pc[t] = "call" /\ Scheduled(t)
    /\ call[t].op = "add"
    /\ IF ~ensure_initialized(t)
       THEN /\ Raised(t)
            /\ UNCHANGED <<nextId, files>>
       ELSE LET p == call[t].file_path
                e == extract_and_chunk(services[svc[t]].content_extractor,
                                       p, files[p], nextId)
            IN  /\ files' = IF e.read
                            THEN [files EXCEPT ![p].opened = TRUE]
                            ELSE files
                /\ IF ~e.ok
                   THEN /\ Returned(t, Failure(e.error_type,
                                       "file processing failed", p))
                        /\ UNCHANGED nextId
                   ELSE /\ nextId' = nextId + 1
                        /\ loc' = [loc EXCEPT ![t].metadata = e.metadata,
                                              ![t].chunks = e.chunks]
                        /\ Await(t, IF e.chunks # << >> THEN "add_embed"
                                    ELSE "add_store")
    /\ UNCHANGED <<process, document_service, services, store, calls, cleared,
                   resets, addLog>>

\* Variant of AssignEmbeddings: the chunks come out in reverse order.
AssignEmbeddingsReversed(chs, embeddings) ==
    [i \in 1..Len(chs) |->
        LET j == Len(chs) + 1 - i
        IN  IF j <= Len(embeddings)
            THEN [chs[j] EXCEPT !.embedding = embeddings[j]]
            ELSE chs[j]]

\* for chunk, embedding in zip(chunks, embeddings): chunk.embedding = embedding
AssignEmbeddings(chs, embeddings) ==
    [i \in 1..Len(chs) |->
        IF i <= Len(embeddings)
        THEN [chs[i] EXCEPT !.embedding = embeddings[i]]
        ELSE chs[i]]

\* What generate_embeddings hands back: one vector per text, or, from a
\* component that breaks its contract, a list one vector short.
Embeddings(texts, outcome) ==
    LET all == generate_embeddings(texts)
    IN  IF outcome = "short" THEN SubSeq(all, 1, Len(all) - 1) ELSE all

\* generate_embeddings ends: the vectors are assigned to the chunks, or the
\* failure is answered.
AddDocumentEmbed(t) ==
    /\ pc[t] = "add_embed" /\ running = 0
    /\ \E outcome \in {"ok", "short", "fail"} :
        IF outcome # "fail"
        THEN LET texts == [i \in 1..Len(loc[t].chunks) |->
                              loc[t].chunks[i].content]
             IN  /\ loc' = [loc EXCEPT ![t].chunks =
                        AssignEmbeddings(@, Embeddings(texts, outcome))]
                 /\ Await(t, "add_store")
                 /\ UNCHANGED addLog
        ELSE /\ Returned(t, IngestionError(t))
             /\ addLog' = Logged(t, FALSE)
    /\ UNCHANGED <<process, files, document_service, services, store, nextId,
                   calls, cleared, resets>>

\* Variant of AddDocumentStore: the chunks are written before the metadata,
\* and a failure of the write leaves the chunk rows behind.
AddDocumentStoreKeepsChunks(t) ==
    /\ pc[t] = "add_store" /\ running = 0
    /\ \E ok \in BOOLEAN :
        IF ok /\ WriteAccepted(loc[t].metadata, loc[t].chunks)
        THEN LET new == add_document_vectors(store, loc[t].metadata,
                                             loc[t].chunks)
             IN  /\ store' = new
                 /\ loc' = [Observed(new) EXCEPT
                              ![t].persisted = Len(loc[t].chunks)]
                 /\ Await(t, "add_ret")
                 /\ UNCHANGED addLog
        ELSE /\ Returned(t, IngestionError(t))
             /\ addLog' = Logged(t, FALSE)
             /\ store' = [store EXCEPT !.chunks = @ \o loc[t].chunks]
    /\ UNCHANGED <<process, files, document_service, services, nextId, calls,
                   cleared, resets>>

\* Variant of AddDocumentStore: the write replaces the tables' rows instead
\* of adding to them.
AddDocumentStoreOverwrite(t) ==
    /\ pc[t] = "add_store" /\ running = 0
    /\ \E ok \in BOOLEAN :
        IF ok /\ WriteAccepted(loc[t].metadata, loc[t].chunks)
        THEN LET new == add_document_vectors(clear_all_documents(store),
                                             loc[t].metadata, loc[t].chunks)
             IN  /\ store' = new
                 /\ loc' = [Observed(new) EXCEPT
                              ![t].persisted = Len(loc[t].chunks)]
                 /\ Await(t, "add_ret")
                 /\ UNCHANGED addLog
        ELSE /\ Returned(t, IngestionError(t))
             /\ addLog' = Logged(t, FALSE)
             /\ UNCHANGED store
    /\ UNCHANGED <<process, files, document_service, services, nextId, calls,
                   cleared, resets>>

\* Variant of AddDocumentStore: a failure of the store write is swallowed
\* and the call still answers success.
AddDocumentStoreSwallow(t) ==
    /\ pc[t] = "add_store" /\ running = 0
    /\ \E ok \in BOOLEAN :
        /\ IF ok /\ WriteAccepted(loc[t].metadata, loc[t].chunks)
           THEN LET new == add_document_vectors(store, loc[t].metadata,
                                                loc[t].chunks)
                IN  /\ store' = new
                    /\ loc' = [Observed(new) EXCEPT
                                 ![t].persisted = Len(loc[t].chunks)]
           ELSE UNCHANGED <<store, loc>>
        /\ Await(t, "add_ret")
        /\ UNCHANGED addLog
    /\ UNCHANGED <<process, files, document_service, services, nextId, calls,
                   cleared, resets>>

\* db_manager.add_document_vectors(metadata, chunks) ends: the store has
\* taken the document whole, or refused it and the failure is answered.
AddDocumentStore(t) ==
    /\ pc[t] = "add_store" /\ running = 0
    /\ \E ok \in BOOLEAN :
        IF ok /\ WriteAccepted(loc[t].metadata, loc[t].chunks)
        THEN LET new == add_document_vectors(store, loc[t].metadata,
                                             loc[t].chunks)
             IN  /\ store' = new
                 /\ loc' = [Observed(new) EXCEPT
                              ![t].persisted = Len(loc[t].chunks)]
                 /\ Await(t, "add_ret")
                 /\ UNCHANGED addLog
        ELSE /\ Returned(t, IngestionError(t))
             /\ addLog' = Logged(t, FALSE)
             /\ UNCHANGED store
    /\ UNCHANGED <<process, files, document_service, services, nextId, calls,
                   cleared, resets>>

\* Variant of AddDocumentReturn: the response reports the last chunk index
\* as the chunk count.
AddDocumentReturnLastIndex(t) ==
    /\ pc[t] = "add_ret" /\ running = 0
    /\ Returned(t, Success([id |-> loc[t].metadata.id,
                            file_path |-> loc[t].metadata.file_path,
                            chunk_count |-> loc[t].metadata.chunk_count - 1]))
    /\ addLog' = Logged(t, TRUE)
    /\ UNCHANGED <<process, files, document_service, services, store, nextId,
                   calls, cleared, resets>>

\* add_document resumes after the store write and answers success.
AddDocumentReturn(t) ==
    /\ pc[t] = "add_ret" /\ running = 0
    /\ Returned(t, Success([id |-> loc[t].metadata.id,
                            file_path |-> loc[t].metadata.file_path,
                            chunk_count |-> loc[t].metadata.chunk_count]))
    /\ addLog' = Logged(t, TRUE)
    /\ UNCHANGED <<process, files, document_service, services, store, nextId,
                   calls, cleared, resets>>

\* ----------------------------------------------------------- list_documents
ListingError(t) ==
    Failure("document_listing_error", "Failed to list documents",
            <<call[t].limit, call[t].offset>>)

\* list_documents up to its first await.
ListDocumentsBegin(t) ==
    /\ pc[t] = "call" /\ Scheduled(t)
    /\ call[t].op = "list"
    /\ IF ~ensure_initialized(t)
       THEN Raised(t)
       ELSE /\ Await(t, "l_docs")
            /\ UNCHANGED loc
    /\ UNCHANGED <<process, files, document_service, services, store, nextId,
                   calls, cleared, resets, addLog>>

\* Variant of ListDocumentsRead: the offset is not passed on to the store.
ListDocumentsReadNoOffset(t) ==
    /\ pc[t] = "l_docs" /\ running = 0
    /\ \E ok \in BOOLEAN :
        IF ok
        THEN /\ loc' = [loc EXCEPT
                    ![t].docs = list_all_documents(store, call[t].limit, 0),
                    ![t].snaps = {store}]
             /\ Await(t, "l_count")
        ELSE Returned(t, ListingError(t))
    /\ UNCHANGED <<process, files, document_service, services, store, nextId,
                   calls, cleared, resets, addLog>>

\* db_manager.list_all_documents(limit, offset) ends.
ListDocumentsRead(t) ==
    /\ pc[t] = "l_docs" /\ running = 0
    /\ \E ok \in BOOLEAN :
        IF ok
        THEN /\ loc' = [loc EXCEPT
                    ![t].docs = list_all_documents(store, call[t].limit,
                                                   call[t].offset),
                    ![t].snaps = {store}]
             /\ Await(t, "l_count")
        ELSE Returned(t, ListingError(t))
    /\ UNCHANGED <<process, files, document_service, services, store, nextId,
                   calls, cleared, resets, addLog>>

\* db_manager.get_document_count() ends and list_documents answers.
ListDocumentsCount(t) ==
    /\ pc[t] = "l_count" /\ running = 0
    /\ \E ok \in BOOLEAN :
        IF ok
        THEN Returned(t, Success(
                [documents |-> loc[t].docs,
                 total_count |-> get_document_count(store),
                 returned_count |-> Len(loc[t].docs),
                 offset |-> call[t].offset, limit |-> call[t].limit]))
        ELSE Returned(t, ListingError(t))
    /\ UNCHANGED <<process, files, document_service, services, store, nextId,
                   calls, cleared, resets, addLog>>

\* --------------------------------------------------------- search_documents
ExcerptLen == 200

Ellipsis == <<46, 46, 46>>

\* Variant of Excerpt: a chunk of exactly the excerpt length is truncated
\* too.
ExcerptOffByOne(content) ==
    IF Len(content) >= ExcerptLen
    THEN SubSeq(content, 1, ExcerptLen) \o Ellipsis
    ELSE content

\* The excerpt of a matched chunk.
Excerpt(content) ==
    IF Len(content) > ExcerptLen
    THEN SubSeq(content, 1, ExcerptLen) \o Ellipsis
    ELSE content

\* The SearchResult built from a match and its document's metadata.
SearchResult(hit, m) ==
    [document_id |-> hit.document_id,
     document_path |-> m.file_path,
     relevance_score |-> 1 - hit.score,
     content_excerpt |-> Excerpt(hit.content),
     metadata |-> [id |-> m.id, chunk_count |-> m.chunk_count]]

SearchError(t) ==
    Failure("document_search_error", "Failed to search documents",
            <<call[t].query, call[t].limit>>)

SearchSuccess(t, results) ==
    Success([results |-> results, query |-> call[t].query,
             result_count |-> Len(results)])

\* Variant of SearchDocumentsBegin: the query is not checked and an empty
\* query goes on to the embedding component.
SearchDocumentsBeginNoQueryCheck(t) ==
    /\ pc[t] = "call" /\ Scheduled(t)
    /\ call[t].op = "search"
    /\ IF ~ensure_initialized(t)
       THEN Raised(t)
       ELSE /\ loc' = [loc EXCEPT ![t].snaps = {store}]
            /\ Await(t, "s_embed")
    /\ UNCHANGED <<process, files, document_service, services, store,
                   nextId, calls, cleared, resets, addLog>>

\* search_documents up to its first await: _ensure_initialized and the
\* empty-query check.
SearchDocumentsBegin(t) ==
    /\ pc[t] = "call" /\ Scheduled(t)
    /\ call[t].op = "search"
    /\ IF ~ensure_initialized(t)
       THEN Raised(t)
       ELSE IF Strip(call[t].query) = << >>
       THEN Returned(t, Failure("invalid_query",
                                "Search query cannot be empty", call[t].query))
       ELSE /\ loc' = [loc EXCEPT ![t].snaps = {store}]
            /\ Await(t, "s_embed")
    /\ UNCHANGED <<process, files, document_service, services, store, nextId,
                   calls, cleared, resets, addLog>>

\* Variant of SearchDocumentsEmbed: the vector of a query is served from
\* the vector another call in flight has computed for its own query.
SearchDocumentsEmbedCached(t) ==
    /\ pc[t] = "s_embed" /\ running = 0
    /\ \E outcome \in {"ok", "empty", "fail"} :
        CASE outcome = "ok" ->
                /\ loc' = [loc EXCEPT ![t].qvec =
                      IF \E u \in Tasks : pc[u] \in {"s_vec", "s_join"}
                      THEN loc[CHOOSE u \in Tasks :
                                  pc[u] \in {"s_vec", "s_join"}].qvec
                      ELSE generate_embedding(Strip(call[t].query))]
                /\ Await(t, "s_vec")
          [] outcome = "empty" ->
                Returned(t, Failure("embedding_generation_error",
                                    "Failed to generate embedding for query",
                                    call[t].query))
          [] outcome = "fail" ->
                Returned(t, SearchError(t))
    /\ UNCHANGED <<process, files, document_service, services, store, nextId,
                   calls, cleared, resets, addLog>>

\* embedding_service.generate_embedding(query) ends: a vector, an empty
\* vector, or a failure.
SearchDocumentsEmbed(t) ==
    /\ pc[t] = "s_embed" /\ running = 0
    /\ \E outcome \in {"ok", "empty", "fail"} :
        CASE outcome = "ok" ->
                /\ loc' = [loc EXCEPT ![t].qvec =
                              generate_embedding(Strip(call[t].query))]
                /\ Await(t, "s_vec")
          [] outcome = "empty" ->
                Returned(t, Failure("embedding_generation_error",
                                    "Failed to generate embedding for query",
                                    call[t].query))
          [] outcome = "fail" ->
                Returned(t, SearchError(t))
    /\ UNCHANGED <<process, files, document_service, services, store, nextId,
                   calls, cleared, resets, addLog>>

\* Variant of SearchDocumentsVectors: the store is asked for one match more
\* than the limit.
SearchDocumentsVectorsOneMore(t) ==
    /\ pc[t] = "s_vec" /\ running = 0
    /\ \E ok \in BOOLEAN :
        IF ok
        THEN LET hits == search_vectors(store, loc[t].qvec,
                                        call[t].limit + 1)
             IN  IF hits = << >>
                 THEN Returned(t, SearchSuccess(t, << >>))
                 ELSE /\ loc' = [loc EXCEPT ![t].hits = hits, ![t].k = 1]
                      /\ Await(t, "s_join")
        ELSE Returned(t, SearchError(t))
    /\ UNCHANGED <<process, files, document_service, services, store, nextId,
                   calls, cleared, resets, addLog>>

\* db_manager.search_vectors(query_embedding, limit) ends; with no match
\* search_documents answers at once.
SearchDocumentsVectors(t) ==
    /\ pc[t] = "s_vec" /\ running = 0
    /\ \E ok \in BOOLEAN :
        IF ok
        THEN LET hits == search_vectors(store, loc[t].qvec, call[t].limit)
             IN  IF hits = << >>
                 THEN Returned(t, SearchSuccess(t, << >>))
                 ELSE /\ loc' = [loc EXCEPT ![t].hits = hits, ![t].k = 1]
                      /\ Await(t, "s_join")
        ELSE Returned(t, SearchError(t))
    /\ UNCHANGED <<process, files, document_service, services, store, nextId,
                   calls, cleared, resets, addLog>>

\* Variant of SearchDocumentsJoin: each result is put in front of the
\* results built so far.
SearchDocumentsJoinPrepends(t) ==
    /\ pc[t] = "s_join" /\ running = 0
    /\ \E ok \in BOOLEAN :
        IF ok
        THEN LET hit == loc[t].hits[loc[t].k]
                 m == get_document_metadata(store, hit.document_id)
                 joined == IF m # NoMetadata
                           THEN <<SearchResult(hit, m)>> \o loc[t].joined
                           ELSE loc[t].joined
             IN  IF loc[t].k = Len(loc[t].hits)
                 THEN Returned(t, SearchSuccess(t, joined))
                 ELSE /\ loc' = [loc EXCEPT ![t].joined = joined,
                                            ![t].k = @ + 1]
                      /\ Await(t, "s_join")
        ELSE Returned(t, SearchError(t))
    /\ UNCHANGED <<process, files, document_service, services, store, nextId,
                   calls, cleared, resets, addLog>>

\* Variant of SearchDocumentsJoin: a match whose document is not found is
\* kept, with the metadata of no document.
SearchDocumentsJoinKeepsUnfound(t) ==
    /\ pc[t] = "s_join" /\ running = 0
    /\ \E ok \in BOOLEAN :
        IF ok
        THEN LET hit == loc[t].hits[loc[t].k]
                 m == get_document_metadata(store, hit.document_id)
                 joined == Append(loc[t].joined, SearchResult(hit, m))
             IN  IF loc[t].k = Len(loc[t].hits)
                 THEN Returned(t, SearchSuccess(t, joined))
                 ELSE /\ loc' = [loc EXCEPT ![t].joined = joined,
                                            ![t].k = @ + 1]
                      /\ Await(t, "s_join")
        ELSE Returned(t, SearchError(t))
    /\ UNCHANGED <<process, files, document_service, services, store, nextId,
                   calls, cleared, resets, addLog>>

\* db_manager.get_document_metadata(vector_result.document_id) ends for the
\* next match: the match is kept if its document is found; after the last
\* match search_documents answers.
SearchDocumentsJoin(t) ==
    /\ pc[t] = "s_join" /\ running = 0
    /\ \E ok \in BOOLEAN :
        IF ok
        THEN LET hit == loc[t].hits[loc[t].k]
                 m == get_document_metadata(store, hit.document_id)
                 joined == IF m # NoMetadata
                           THEN Append(loc[t].joined, SearchResult(hit, m))
                           ELSE loc[t].joined
             IN  IF loc[t].k = Len(loc[t].hits)
                 THEN Returned(t, SearchSuccess(t, joined))
                 ELSE /\ loc' = [loc EXCEPT ![t].joined = joined,
                                            ![t].k = @ + 1]
                      /\ Await(t, "s_join")
        ELSE Returned(t, SearchError(t))
    /\ UNCHANGED <<process, files, document_service, services, store, nextId,
                   calls, cleared, resets, addLog>>

\* ------------------------------------------------------ clear_knowledge_base
\* clear_knowledge_base up to its await.
ClearKnowledgeBaseBegin(t) ==
    /\ pc[t] = "call" /\ Scheduled(t)
    /\ call[t].op = "clear"
    /\ IF ~ensure_initialized(t)
       THEN Raised(t)
       ELSE /\ Await(t, "c_store")
            /\ UNCHANGED loc
    /\ UNCHANGED <<process, files, document_service, services, store, nextId,
                   calls, cleared, resets, addLog>>

\* Variant of ClearKnowledgeBaseStore: only the documents table is emptied.
ClearKnowledgeBaseStoreDocsOnly(t) ==
    /\ pc[t] = "c_store" /\ running = 0
    /\ \E ok \in BOOLEAN :
        IF ok
        THEN LET new == [store EXCEPT !.documents = << >>]
             IN  /\ store' = new
                 /\ cleared' = cleared \cup DocIds(store.documents)
                 /\ loc' = [Observed(new) EXCEPT
                              ![t].removed = get_document_count(store)]
                 /\ Await(t, "c_ret")
        ELSE /\ Returned(t, Failure("knowledge_base_clear_error",
                                    "Failed to clear knowledge base", ""))
             /\ UNCHANGED <<store, cleared>>
    /\ UNCHANGED <<process, files, document_service, services, nextId, calls,
                   resets, addLog>>

\* Variant of ClearKnowledgeBaseStore: a failing clear has already deleted
\* the documents table.
ClearKnowledgeBaseStoreHalfway(t) ==
    /\ pc[t] = "c_store" /\ running = 0
    /\ \E ok \in BOOLEAN :
        IF ok
        THEN LET new == clear_all_documents(store)
             IN  /\ store' = new
                 /\ cleared' = cleared \cup DocIds(store.documents)
                 /\ loc' = [Observed(new) EXCEPT
                              ![t].removed = get_document_count(store)]
                 /\ Await(t, "c_ret")
        ELSE /\ Returned(t, Failure("knowledge_base_clear_error",
                                    "Failed to clear knowledge base", ""))
             /\ store' = [store EXCEPT !.documents = << >>]
             /\ UNCHANGED cleared
    /\ UNCHANGED <<process, files, document_service, services, nextId, calls,
                   resets, addLog>>

\* db_manager.clear_all_documents() ends: both tables are empty, or the
\* failure is answered.
ClearKnowledgeBaseStore(t) ==
    /\ pc[t] = "c_store" /\ running = 0
    /\ \E ok \in BOOLEAN :
        IF ok
        THEN LET new == clear_all_documents(store)
             IN  /\ store' = new
                 /\ cleared' = cleared \cup DocIds(store.documents)
                 /\ loc' = [Observed(new) EXCEPT
                              ![t].removed = get_document_count(store)]
                 /\ Await(t, "c_ret")
        ELSE /\ Returned(t, Failure("knowledge_base_clear_error",
                                    "Failed to clear knowledge base", ""))
             /\ UNCHANGED <<store, cleared>>
    /\ UNCHANGED <<process, files, document_service, services, nextId, calls,
                   resets, addLog>>

\* Variant of ClearKnowledgeBaseReturn: the count is taken after the clear.
ClearKnowledgeBaseReturnCountsAfter(t) ==
    /\ pc[t] = "c_ret" /\ running = 0
    /\ Returned(t, Success([documents_removed |-> get_document_count(store)]))
    /\ UNCHANGED <<process, files, document_service, services, store, nextId,
                   calls, cleared, resets, addLog>>

\* clear_knowledge_base resumes and answers success.
ClearKnowledgeBaseReturn(t) ==
    /\ pc[t] = "c_ret" /\ running = 0
    /\ Returned(t, Success([documents_removed |-> loc[t].removed]))
    /\ UNCHANGED <<process, files, document_service, services, store, nextId,
                   calls, cleared, resets, addLog>>

\* ------------------------------------------------------------ cleanup_server
\* cleanup_server finished: the module global is reset.
CleanupDone(t) ==
    /\ document_service' = 0
    /\ resets' = resets + 1
    /\ Finish(t, "none", Success(None))

\* cleanup_server: nothing to do without an instance; otherwise
\* DocumentService.cleanup starts with embedding_service.cleanup().
CleanupServerBegin(t) ==
    /\ pc[t] = "cleanup" /\ Scheduled(t)
    /\ IF document_service = 0
       THEN Finish(t, "none", Success(None))
       ELSE /\ svc' = [svc EXCEPT ![t] = document_service]
            /\ Suspend(t, "cl_embed")
            /\ UNCHANGED loc
    /\ UNCHANGED <<process, files, document_service, services, store, nextId,
                   calls, cleared, resets, addLog>>

\* embedding_service.cleanup() ends; a failure ends DocumentService.cleanup
\* in its except branch.
CleanupEmbedding(t) ==
    /\ pc[t] = "cl_embed" /\ running = 0
    /\ \E ok \in BOOLEAN :
        IF ok
        THEN /\ services' = [services EXCEPT ![svc[t]].model = "released"]
             /\ Await(t, "cl_db")
             /\ UNCHANGED <<document_service, resets, loc>>
        ELSE /\ services' = [services EXCEPT ![svc[t]].cleaned = TRUE]
             /\ CleanupDone(t)
    /\ UNCHANGED <<process, files, store, nextId, calls, cleared, addLog>>

\* db_manager.close() ends; on success the service is marked uninitialized.
CleanupClose(t) ==
    /\ pc[t] = "cl_db" /\ running = 0
    /\ \E ok \in BOOLEAN :
        /\ services' = IF ok
                       THEN [services EXCEPT ![svc[t]].db = "closed",
                                             ![svc[t]].initialized = FALSE,
                                             ![svc[t]].cleaned = TRUE]
                       ELSE [services EXCEPT ![svc[t]].cleaned = TRUE]
        /\ CleanupDone(t)
    /\ UNCHANGED <<process, files, store, nextId, calls, cleared, addLog>>

\* ------------------------------------------------------------ specification
Next ==
    \E t \in Tasks :
        \/ Start(t)
        \/ GetDocumentServiceFirst(t)
        \/ GetDocumentServiceCached(t)
        \/ InitializeDatabase(t)
        \/ InitializeModel(t)
        \/ AddDocumentBegin(t)
        \/ AddDocumentEmbed(t)
        \/ AddDocumentStore(t)
        \/ AddDocumentReturn(t)
        \/ ListDocumentsBegin(t)
        \/ ListDocumentsRead(t)
        \/ ListDocumentsCount(t)
        \/ SearchDocumentsBegin(t)
        \/ SearchDocumentsEmbed(t)
        \/ SearchDocumentsVectors(t)
        \/ SearchDocumentsJoin(t)
        \/ ClearKnowledgeBaseBegin(t)
        \/ ClearKnowledgeBaseStore(t)
        \/ ClearKnowledgeBaseReturn(t)
        \/ CleanupServerBegin(t)
        \/ CleanupEmbedding(t)
        \/ CleanupClose(t)

Spec == Init /\ [][Next]_vars

\* ---------------------------------------------- ingestion of any one file
\* add_document on an initialized service, for every file and every valid
\* extractor configuration within the bounds.
MaxChunkSize == 4    \* largest chunk_size drawn
MaxTextLen == 6      \* characters of the longest text drawn

\* The valid configurations (chunk_overlap < chunk_size), the size limit
\* below or at the longest text; and the configuration of the test suite.
Extractors ==
    {ContentExtractor(s, o, m) :
        <<s, o, m>> \in {x \in (1..MaxChunkSize) \X (0..MaxChunkSize)
                                \X {MaxTextLen - 2, MaxTextLen} :
                            x[2] < x[1]}}
    \cup {ContentExtractor(100, 20, 250)}

\* The ways to cut a text into consecutive structural units.
RECURSIVE Splits(_)
Splits(text) ==
    IF text = << >> THEN {<< >>}
    ELSE UNION {{<<SubSeq(text, 1, k)>> \o rest :
                    rest \in Splits(SubSeq(text, k + 1, Len(text)))} :
                k \in 1..Len(text)}

TextFiles ==
    {File(TRUE, "text", IF n = 0 THEN << >> ELSE <<Text(n)>>) :
        n \in (0..MaxTextLen) \cup {250}}

SourceFiles ==
    {File(TRUE, "source", u) : u \in UNION {Splits(Text(n)) : n \in 0..MaxTextLen}}

\* Files the extractor refuses whatever the configuration.
BadFiles ==
    {File(FALSE, "text", <<Text(2)>>),
     [File(TRUE, "text", <<Text(2)>>) EXCEPT !.readable = FALSE],
     [File(TRUE, "text", <<Text(2)>>) EXCEPT !.decodable = FALSE]}

PathOf(file) == IF file.kind = "source" THEN "a.py" ELSE "a.txt"

\* Task 1 has validated its parameters and holds the initialized service.
ExtractorInit ==
    /\ \E x \in Extractors, f \in TextFiles \cup SourceFiles \cup BadFiles :
        /\ process = Started([DefaultConfig EXCEPT
                                 !.chunk_size = x.chunk_size,
                                 !.chunk_overlap = x.chunk_overlap,
                                 !.max_file_size = x.max_file_size])
        /\ services = <<[NewService EXCEPT !.initialized = TRUE,
                                           !.initRuns = 1,
                                           !.db = "ready",
                                           !.model = "loaded"]>>
        /\ files = [p \in {PathOf(f), "b.txt"} |->
                       IF p = PathOf(f) THEN f ELSE FileSystem["b.txt"]]
        /\ call = [t \in Tasks |->
                      IF t = 1
                      THEN [NoCall EXCEPT !.op = "add",
                                          !.file_path = PathOf(f)]
                      ELSE NoCall]
    /\ document_service = 1
    /\ store = [documents |-> << >>, chunks |-> << >>]
    /\ nextId = 1
    /\ pc = [t \in Tasks |-> IF t = 1 THEN "call" ELSE "idle"]
    /\ svc = [t \in Tasks |-> IF t = 1 THEN 1 ELSE 0]
    /\ loc = [t \in Tasks |-> NoLoc]
    /\ last = NoLast
    /\ running = 1
    /\ calls = 1
    /\ cleared = {}
    /\ resets = 0
    /\ addLog = {}

ExtractorNext ==
    \E t \in Tasks :
        \/ AddDocumentBegin(t)
        \/ AddDocumentEmbed(t)
        \/ AddDocumentStore(t)
        \/ AddDocumentReturn(t)

ExtractorSpec == ExtractorInit /\ [][ExtractorNext]_vars

\* ------------------------------------------------- search of a long chunk
\* search_documents on a store that holds one document of one chunk, of
\* every length up to a little over the excerpt length.
MaxExcerptExtra == 5 \* characters of the longest chunk over ExcerptLen

\* Task 1 has validated its parameters and holds the initialized service;
\* an earlier add_document has stored the document.
ExcerptInit ==
    /\ \E n \in 1..(ExcerptLen + MaxExcerptExtra) :
        LET m == [id |-> 1, file_path |-> "a.txt", chunk_count |-> 1]
            chunk == [document_id |-> 1, chunk_index |-> 0,
                      content |-> Text(n),
                      embedding |-> generate_embedding(Text(n))]
        IN  /\ store = [documents |-> <<m>>, chunks |-> <<chunk>>]
            /\ files = [FileSystem EXCEPT !["a.txt"] =
                           [File(TRUE, "text", <<Text(n)>>)
                               EXCEPT !.opened = TRUE]]
            /\ process = Started([DefaultConfig EXCEPT
                                     !.chunk_size = n,
                                     !.chunk_overlap = 0,
                                     !.max_file_size = n])
            /\ services = <<[NewService EXCEPT
                                !.initialized = TRUE,
                                !.initRuns = 1,
                                !.db = "ready",
                                !.model = "loaded"]>>
    /\ addLog = {[id |-> 1, success |-> TRUE, chunk_count |-> 1,
                  persisted |-> 1]}
    /\ document_service = 1
    /\ nextId = 2
    /\ pc = [t \in Tasks |-> IF t = 1 THEN "call" ELSE "idle"]
    /\ call = [t \in Tasks |->
                  IF t = 1
                  THEN [NoCall EXCEPT !.op = "search", !.query = <<1>>,
                                      !.limit = 3]
                  ELSE NoCall]
    /\ svc = [t \in Tasks |-> IF t = 1 THEN 1 ELSE 0]
    /\ loc = [t \in Tasks |-> NoLoc]
    /\ last = NoLast
    /\ running = 1
    /\ calls = 2
    /\ cleared = {}
    /\ resets = 0

ExcerptNext ==
    \E t \in Tasks :
        \/ SearchDocumentsBegin(t)
        \/ SearchDocumentsEmbed(t)
        \/ SearchDocumentsVectors(t)
        \/ SearchDocumentsJoin(t)

ExcerptSpec == ExcerptInit /\ [][ExcerptNext]_vars

\* ------------------------------------------------- listing of a filled store
\* The server is started on a store that earlier runs have filled, and
\* list_documents tools are called with every limit and offset in the
\* bounds.
MaxDocs == 3         \* documents in the store at the start

\* The store after documents 1..n have been ingested, a.txt and b.txt in
\* turn.
RECURSIVE Ingested(_)
Ingested(n) ==
    IF n = 0 THEN [documents |-> << >>, chunks |-> << >>]
    ELSE LET p == IF n % 2 = 1 THEN "a.txt" ELSE "b.txt"
             e == extract_and_chunk(DocumentService(DefaultConfig)
                                        .content_extractor,
                                    p, FileSystem[p], n)
             texts == [i \in 1..Len(e.chunks) |-> e.chunks[i].content]
         IN  add_document_vectors(
                 Ingested(n - 1), e.metadata,
                 AssignEmbeddings(e.chunks, generate_embeddings(texts)))

ListCalls ==
    {[NoCall EXCEPT !.op = "list", !.limit = l, !.offset = o] :
        l \in {0, 1, 2}, o \in -1..(MaxDocs + 1)}

ListInit ==
    /\ process = Started(DefaultConfig)
    /\ document_service = 0
    /\ services = << >>
    /\ \E n \in 0..MaxDocs :
        /\ store = Ingested(n)
        /\ nextId = n + 1
    /\ files = FileSystem
    /\ pc = [t \in Tasks |-> "idle"]
    /\ call = [t \in Tasks |-> NoCall]
    /\ svc = [t \in Tasks |-> 0]
    /\ loc = [t \in Tasks |-> NoLoc]
    /\ last = NoLast
    /\ running = 0
    /\ calls = 0
    /\ cleared = {}
    /\ resets = 0
    /\ addLog = {}

ListNext ==
    \E t \in Tasks :
        \/ Invoke(t, ListCalls)
        \/ GetDocumentServiceFirst(t)
        \/ GetDocumentServiceCached(t)
        \/ InitializeDatabase(t)
        \/ InitializeModel(t)
        \/ ListDocumentsBegin(t)
        \/ ListDocumentsRead(t)
        \/ ListDocumentsCount(t)

ListSpec == ListInit /\ [][ListNext]_vars

\* ------------------------------------------------------------------ startup
\* The server started through main(): the configuration is loaded, the
\* command-line overrides are applied and the result is validated; then
\* initialize_server() creates the document service, and the tools
\* registered on the FastMCP app are served.
\* Config.load(config_file): the configuration of the file named by
\* --config, or of the environment when none is named.
Config_load(args) ==
    IF args.config THEN process.config_file ELSE process.environ

\* Config.validate(): chunk_overlap < chunk_size, positive sizes, non-empty
\* model id.
validate(config) ==
    /\ config.chunk_size > 0
    /\ config.chunk_overlap >= 0
    /\ config.chunk_overlap < config.chunk_size
    /\ config.max_file_size > 0
    /\ config.model # ""

\* The command lines and environments a process is started with.
Arguments == [config : BOOLEAN, db_path : {"", "cli.db"}]

Environments == {DefaultConfig, [DefaultConfig EXCEPT !.model = ""]}

FileConfig == [DefaultConfig EXCEPT !.path = "file.db"]

\* The process has been started and main() has not run yet; main() is the
\* first of the calls of the behaviour.
StartupInit ==
    /\ \E e \in Environments, a \in Arguments :
        process = Process(e, FileConfig, a, NoConfig, "start")
    /\ document_service = 0
    /\ services = << >>
    /\ store = [documents |-> << >>, chunks |-> << >>]
    /\ nextId = 1
    /\ files = FileSystem
    /\ pc = [t \in Tasks |-> IF t = 1 THEN "main" ELSE "idle"]
    /\ call = [t \in Tasks |-> NoCall]
    /\ svc = [t \in Tasks |-> 0]
    /\ loc = [t \in Tasks |-> NoLoc]
    /\ last = NoLast
    /\ running = 1
    /\ calls = 1
    /\ cleared = {}
    /\ resets = 0
    /\ addLog = {}

\* main() up to `await initialize_server()`: Config.load, the overrides of
\* the command line, config.validate().  A ConfigurationError ends main()
\* with exit code 1, through the cleanup_server() of its finally clause.
Main(t) ==
    /\ pc[t] = "main" /\ Scheduled(t)
    /\ process.main = "start"
    /\ LET loaded == Config_load(process.args)
           config == IF process.args.db_path # ""
                     THEN [loaded EXCEPT !.path = process.args.db_path]
                     ELSE loaded
       IN  IF validate(config)
           THEN /\ process' = [process EXCEPT !.config = config,
                                              !.main = "started"]
                /\ call' = [call EXCEPT ![t].op = "initialize_server"]
                /\ pc' = [pc EXCEPT ![t] = "gds"]
           ELSE /\ process' = [process EXCEPT !.main = "refused"]
                /\ call' = [call EXCEPT ![t].op = "cleanup"]
                /\ pc' = [pc EXCEPT ![t] = "cleanup"]
    /\ running' = t
    /\ UNCHANGED <<document_service, services, store, nextId, files, svc,
                   loc, last, calls, cleared, resets, addLog>>

\* initialize_server() returns: main() returns 0 and its finally clause
\* runs cleanup_server().
InitializeServerReturn(t) ==
    /\ pc[t] = "call" /\ Scheduled(t)
    /\ call[t].op = "initialize_server"
    /\ call' = [call EXCEPT ![t].op = "cleanup"]
    /\ pc' = [pc EXCEPT ![t] = "cleanup"]
    /\ running' = t
    /\ UNCHANGED <<process, document_service, services, store, nextId,
                   files, svc, loc, last, calls, cleared, resets, addLog>>

\* The tools are served once main() has validated the configuration.
StartupNext ==
    \/ \E t \in Tasks : Main(t) \/ InitializeServerReturn(t)
    \/ process.main = "started" /\ Next

StartupSpec == StartupInit /\ [][StartupNext]_vars

\* ----------------------------------------------- direct use of the service
\* A program that holds one DocumentService and calls its methods itself,
\* as the test suite does: initialize(), cleanup() and the operations, in
\* any order, several at a time.
ServiceCalls ==
    {[NoCall EXCEPT !.op = "initialize"],
     [NoCall EXCEPT !.op = "cleanup"],
     [NoCall EXCEPT !.op = "add", !.file_path = "b.txt"],
     [NoCall EXCEPT !.op = "list"],
     [NoCall EXCEPT !.op = "search", !.query = <<1>>, !.limit = 3],
     [NoCall EXCEPT !.op = "search", !.query = << >>, !.limit = 3],
     [NoCall EXCEPT !.op = "search", !.query = <<0>>, !.limit = 3],
     [NoCall EXCEPT !.op = "clear"],
     [NoCall EXCEPT !.op = "get", !.document_id = 1],
     [NoCall EXCEPT !.op = "stats"]}

\* The service is constructed and no method has been called.
ServiceInit ==
    /\ process = Started(DefaultConfig)
    /\ document_service = 0
    /\ services = <<NewService>>
    /\ store = [documents |-> << >>, chunks |-> << >>]
    /\ nextId = 1
    /\ files = FileSystem
    /\ pc = [t \in Tasks |-> "idle"]
    /\ call = [t \in Tasks |-> NoCall]
    /\ svc = [t \in Tasks |-> 0]
    /\ loc = [t \in Tasks |-> NoLoc]
    /\ last = NoLast
    /\ running = 0
    /\ calls = 0
    /\ cleared = {}
    /\ resets = 0
    /\ addLog = {}

\* A method of the service is called.  initialize() and cleanup() run to
\* their first await; an operation starts with _ensure_initialized.
ServiceCall(t) ==
    /\ pc[t] = "idle"
    /\ \A u \in Tasks : u < t => pc[u] # "idle"
    /\ running = 0
    /\ calls < MaxCalls
    /\ calls' = calls + 1
    /\ \E c \in ServiceCalls :
        /\ call' = [call EXCEPT ![t] = c]
        /\ svc' = [svc EXCEPT ![t] = 1]
        /\ last' = NoLast
        /\ CASE c.op = "initialize" ->
                  /\ pc' = [pc EXCEPT ![t] = "init_db"]
                  /\ running' = 0
                  /\ services' = [services EXCEPT ![1].initRuns = @ + 1]
             [] c.op = "cleanup" ->
                  /\ pc' = [pc EXCEPT ![t] = "cl_embed"]
                  /\ running' = 0
                  /\ UNCHANGED services
             [] OTHER ->
                  /\ pc' = [pc EXCEPT ![t] = "call"]
                  /\ running' = t
                  /\ UNCHANGED services
    /\ UNCHANGED <<process, files, document_service, store, nextId, loc,
                   cleared, resets, addLog>>

\* initialize() returns to its caller.
ServiceInitializeReturn(t) ==
    /\ pc[t] = "call" /\ Scheduled(t)
    /\ call[t].op = "initialize"
    /\ Returned(t, Success(None))
    /\ UNCHANGED <<process, files, document_service, services, store, nextId,
                   calls, cleared, resets, addLog>>

\* cleanup(): embedding_service.cleanup() ends; a failure ends cleanup in
\* its except branch, which logs and returns.
ServiceCleanupEmbedding(t) ==
    /\ pc[t] = "cl_embed" /\ running = 0
    /\ \E ok \in BOOLEAN :
        IF ok
        THEN /\ services' = [services EXCEPT ![svc[t]].model = "released"]
             /\ Await(t, "cl_db")
             /\ UNCHANGED loc
        ELSE /\ services' = [services EXCEPT ![svc[t]].cleaned = TRUE]
             /\ Returned(t, Success(None))
    /\ UNCHANGED <<process, files, document_service, store, nextId, calls,
                   cleared, resets, addLog>>

\* cleanup(): db_manager.close() ends; on success the service is marked
\* uninitialized, and cleanup returns either way.
ServiceCleanupClose(t) ==
    /\ pc[t] = "cl_db" /\ running = 0
    /\ \E ok \in BOOLEAN :
        services' = IF ok
                    THEN [services EXCEPT ![svc[t]].db = "closed",
                                          ![svc[t]].initialized = FALSE,
                                          ![svc[t]].cleaned = TRUE]
                    ELSE [services EXCEPT ![svc[t]].cleaned = TRUE]
    /\ Returned(t, Success(None))
    /\ UNCHANGED <<process, files, document_service, store, nextId, calls,
                   cleared, resets, addLog>>

\* get_document_by_id up to its await.
GetDocumentByIdBegin(t) ==
    /\ pc[t] = "call" /\ Scheduled(t)
    /\ call[t].op = "get"
    /\ IF ~ensure_initialized(t)
       THEN Raised(t)
       ELSE /\ Await(t, "g_meta")
            /\ UNCHANGED loc
    /\ UNCHANGED <<process, files, document_service, services, store, nextId,
                   calls, cleared, resets, addLog>>

\* db_manager.get_document_metadata(document_id) ends: the document's
\* metadata is returned, or None when it is not found or the store failed.
GetDocumentByIdReturn(t) ==
    /\ pc[t] = "g_meta" /\ running = 0
    /\ \E ok \in BOOLEAN :
        LET m == get_document_metadata(store, call[t].document_id)
        IN  IF ok /\ m # NoMetadata
            THEN Returned(t, Success(m))
            ELSE Returned(t, Success(None))
    /\ UNCHANGED <<process, files, document_service, services, store, nextId,
                   calls, cleared, resets, addLog>>

\* get_statistics up to its await.
GetStatisticsBegin(t) ==
    /\ pc[t] = "call" /\ Scheduled(t)
    /\ call[t].op = "stats"
    /\ IF ~ensure_initialized(t)
       THEN Raised(t)
       ELSE /\ Await(t, "st_count")
            /\ UNCHANGED loc
    /\ UNCHANGED <<process, files, document_service, services, store, nextId,
                   calls, cleared, resets, addLog>>

\* db_manager.get_document_count() ends: the statistics, or the fallback
\* statistics when the store failed.
GetStatisticsReturn(t) ==
    /\ pc[t] = "st_count" /\ running = 0
    /\ \E ok \in BOOLEAN :
        IF ok
        THEN Returned(t, Success(
                [document_count |-> get_document_count(store),
                 chunk_size |->
                     services[svc[t]].content_extractor.chunk_size]))
        ELSE Returned(t, Success([document_count |-> 0, chunk_size |-> 0]))
    /\ UNCHANGED <<process, files, document_service, services, store, nextId,
                   calls, cleared, resets, addLog>>

ServiceNext ==
    \E t \in Tasks :
        \/ ServiceCall(t)
        \/ InitializeDatabase(t)
        \/ InitializeModel(t)
        \/ ServiceInitializeReturn(t)
        \/ ServiceCleanupEmbedding(t)
        \/ ServiceCleanupClose(t)
        \/ AddDocumentBegin(t)
        \/ AddDocumentEmbed(t)
        \/ AddDocumentStore(t)
        \/ AddDocumentReturn(t)
        \/ ListDocumentsBegin(t)
        \/ ListDocumentsRead(t)
        \/ ListDocumentsCount(t)
        \/ SearchDocumentsBegin(t)
        \/ SearchDocumentsEmbed(t)
        \/ SearchDocumentsVectors(t)
        \/ SearchDocumentsJoin(t)
        \/ ClearKnowledgeBaseBegin(t)
        \/ ClearKnowledgeBaseStore(t)
        \/ ClearKnowledgeBaseReturn(t)
        \/ GetDocumentByIdBegin(t)
        \/ GetDocumentByIdReturn(t)
        \/ GetStatisticsBegin(t)
        \/ GetStatisticsReturn(t)

ServiceSpec == ServiceInit /\ [][ServiceNext]_vars

\* ------------------------------------------------------------------ claims
\* The chunk rows stored for document id, in table order.
StoredChunks(st, id) == SelectSeq(st.chunks, LAMBDA c : c.document_id = id)

\* Document id is stored whole in st: its metadata row and as many chunk
\* rows as the row's chunk_count.
StoredWhole(st, id) ==
    /\ id \in DocIds(st.documents)
    /\ Len(StoredChunks(st, id)) = get_document_metadata(st, id).chunk_count

\* Nothing of document id is stored in st.
StoredNothing(st, id) ==
    /\ id \notin DocIds(st.documents)
    /\ StoredChunks(st, id) = << >>

\* C1: ingestion is all-or-nothing.  After add_document has answered
\* success=false, no metadata row and no chunk row of that document is in the
\* store that list_documents, get_document_count, get_document_metadata and
\* search read; after it has answered success=true the metadata row and all
\* of the document's chunks are in the store (until a clear removes them).
C1_IngestionAllOrNothing ==
    \A r \in addLog :
        /\ ~r.success => StoredNothing(store, r.id)
        /\ r.success =>
            \/ StoredWhole(store, r.id) /\ r.persisted = r.chunk_count
            \/ r.id \in cleared /\ StoredNothing(store, r.id)

\* C1 witness: one add_document has failed after its document was chunked and
\* another has succeeded with a document of several chunks that is stored.
C1_Witness ==
    \E r1, r2 \in addLog :
        /\ ~r1.success /\ r1.chunk_count >= 1
        /\ r2.success /\ r2.chunk_count >= 2 /\ StoredWhole(store, r2.id)

\* The ids of the documents whose add_document is in flight at one of ps.
InFlight(ps) ==
    {t \in Tasks : call[t].op = "add" /\ pc[t] \in ps}

\* What a reader holds of document id: listed rows, matches and joined
\* results.
Holds(u, id) ==
    \/ \E i \in 1..Len(loc[u].docs) : loc[u].docs[i].id = id
    \/ \E i \in 1..Len(loc[u].hits) : loc[u].hits[i].document_id = id
    \/ \E i \in 1..Len(loc[u].joined) : loc[u].joined[i].document_id = id

\* C2: the store write of a document appears atomic to concurrent readers.
\* Until add_document_vectors has ended, nothing of the document is in the
\* store, in a store state seen by a search in flight, or in what a
\* list_documents or search_documents in flight has read; once it has ended
\* the store, and every state a search in flight has seen, holds the
\* document whole or not at all.
C2_WriteAppearsAtomic ==
    /\ \A w \in InFlight({"add_embed", "add_store"}) :
        LET id == loc[w].metadata.id
        IN  /\ StoredNothing(store, id)
            /\ \A u \in Tasks :
                /\ ~Holds(u, id)
                /\ \A s \in loc[u].snaps : StoredNothing(s, id)
    /\ \A w \in InFlight({"add_ret"}) :
        LET id == loc[w].metadata.id
        IN  /\ StoredWhole(store, id) \/ StoredNothing(store, id)
            /\ \A u \in Tasks : \A s \in loc[u].snaps :
                StoredWhole(s, id) \/ StoredNothing(s, id)

\* C2 witness: a document of several chunks is being written while a
\* search_documents call is reading the store.
C2_Witness ==
    \E w \in InFlight({"add_store"}) : \E u \in Tasks :
        /\ loc[w].metadata.chunk_count >= 2
        /\ pc[u] \in {"s_vec", "s_join"}

\* C3: each pipeline operation answers with a structured result in every
\* service state and under every failure of its collaborators: a failure
\* carries error_type, error_message and error_details, and no
\* DocumentService method raises a fault to its caller.
C3_StructuredResultNoFault ==
    /\ last.out # "raised"
    /\ (last.res.done /\ ~last.res.success) =>
          (last.res.error_type # "" /\ last.res.error_message # "")

\* C4: for concurrent first calls of get_document_service (before any
\* cleanup_server has reset the module global) exactly one DocumentService
\* is constructed, its initialize() is started once, and every caller holds
\* that instance.  In general one more instance exists per reset.
C4_SingleInitialization ==
    /\ Len(services) <= resets + 1
    /\ \A i \in 1..Len(services) : services[i].initRuns = 1
    /\ resets = 0 =>
        /\ document_service \in {0, 1}
        /\ \A t \in Tasks : svc[t] # 0 => (svc[t] = 1 /\ Len(services) = 1)

\* C4 witness: while the first caller is still inside initialize(), a second
\* caller has been handed the same instance.
C4_Witness ==
    \E t1, t2 \in Tasks :
        /\ t1 # t2 /\ resets = 0
        /\ pc[t1] \in {"init_db", "init_model"}
        /\ svc[t1] = 1 /\ svc[t2] = 1

\* The results search_documents builds when every read sees the one store
\* state st.
ResultsOn(st, q, limit) ==
    LET hits == SelectSeq(search_vectors(st, q, limit),
                          LAMBDA h : h.document_id \in DocIds(st.documents))
    IN  [i \in 1..Len(hits) |->
            SearchResult(hits[i],
                         get_document_metadata(st, hits[i].document_id))]

\* C5: a search_documents call that succeeds returns the results of one of
\* the store states that existed while it ran (before or after each
\* concurrent add or clear), never a mix.
C5_SearchNeverTorn ==
    [][\A t \in Tasks :
        (pc[t] \in SearchPcs /\ pc'[t] = "idle" /\ last'.res.success) =>
            last'.res.body.results \in
                {ResultsOn(s, loc[t].qvec, call[t].limit) : s \in loc[t].snaps}
      ]_vars

\* The positions of add_document after the document has its id.
AddPcs == {"add_embed", "add_store", "add_ret"}

\* C6: clear_knowledge_base running concurrently with add_document never
\* leaves a partially stored document: every document whose add_document
\* has reached or passed its store write is stored whole or not at all.
C6_ClearAddNoPartial ==
    \A id \in {r.id : r \in addLog}
              \cup {loc[w].metadata.id : w \in InFlight({"add_store", "add_ret"})} :
        StoredWhole(store, id) \/ StoredNothing(store, id)

\* C6 witness: a clear has removed a document of several chunks between the
\* store write of its add_document and that call's answer.
C6_Witness ==
    \E w \in InFlight({"add_ret"}) :
        /\ loc[w].metadata.id \in cleared
        /\ loc[w].metadata.chunk_count >= 2
        /\ StoredNothing(store, loc[w].metadata.id)

\* The documents written by add_document calls and not removed by a clear.
Kept ==
    {r.id : r \in {x \in addLog : x.success}}
    \cup {loc[w].metadata.id : w \in InFlight({"add_ret"})}

\* C7: concurrent add_document calls get distinct document ids, no write is
\* lost (the store holds one row per document written and not cleared) and
\* every document is stored with its own chunks, the windows of its file.
C7_ConcurrentAddsBothStored ==
    /\ \A t1, t2 \in InFlight(AddPcs) :
        t1 # t2 => loc[t1].metadata.id # loc[t2].metadata.id
    /\ \A t \in InFlight(AddPcs) :
        loc[t].metadata.id \notin {r.id : r \in addLog}
    /\ \A i, j \in 1..Len(store.documents) :
        i # j => store.documents[i].id # store.documents[j].id
    /\ get_document_count(store) = Cardinality(Kept \ cleared)
    /\ \A i \in 1..Len(store.documents) :
        LET m == store.documents[i]
            stored == StoredChunks(store, m.id)
        IN  [k \in 1..Len(stored) |-> stored[k].content]
                = Windows(FileText(m.file_path), 0)

\* C7 witness: two add_document calls for different files have both passed
\* their store write before either has answered, and both documents are
\* stored.
C7_Witness ==
    \E t1, t2 \in InFlight({"add_ret"}) :
        /\ t1 # t2
        /\ call[t1].file_path # call[t2].file_path
        /\ StoredWhole(store, loc[t1].metadata.id)
        /\ StoredWhole(store, loc[t2].metadata.id)
        /\ get_document_count(store) = 2

\* C8: every stored chunk's document_id is the id of a stored metadata row.
C8_ChunksReferenceDocuments ==
    \A i \in 1..Len(store.chunks) :
        store.chunks[i].document_id \in DocIds(store.documents)

\* C8 witness: after a clear has removed a document, chunks of a later
\* document are stored.
C8_Witness ==
    /\ cleared # {}
    /\ Len(store.chunks) >= 2

\* C9: chunk_count on every stored metadata row equals the number of chunk
\* rows stored with its id, and the chunk_count in add_document's success
\* response is the number of chunk rows that call persisted.
C9_ChunkCountMatches ==
    /\ \A i \in 1..Len(store.documents) :
        store.documents[i].chunk_count
            = Len(StoredChunks(store, store.documents[i].id))
    /\ (last.op = "add" /\ last.res.success) =>
        /\ \E r \in addLog :
            /\ r.id = last.res.body.id
            /\ r.persisted = last.res.body.chunk_count
        /\ last.res.body.id \in DocIds(store.documents) =>
             Len(StoredChunks(store, last.res.body.id))
                 = last.res.body.chunk_count

\* C9 witness: add_document has answered success for a document of several
\* chunks, which is stored.
C9_Witness ==
    /\ last.op = "add" /\ last.res.success
    /\ last.res.body.chunk_count >= 2
    /\ last.res.body.id \in DocIds(store.documents)

\* C10: the chunk rows of every stored document carry, in the order they
\* were written, the indices 0..chunk_count-1, each once, and the chunk with
\* index i holds the i-th window of the document's text.
C10_ChunkIndicesContiguous ==
    \A i \in 1..Len(store.documents) :
        LET m == store.documents[i]
            stored == StoredChunks(store, m.id)
        IN  /\ Len(stored) = m.chunk_count
            /\ \A k \in 1..Len(stored) :
                /\ stored[k].chunk_index = k - 1
                /\ stored[k].content = Windows(FileText(m.file_path), 0)[k]

\* C10 witness: a document of several chunks is stored.
C10_Witness ==
    \E i \in 1..Len(store.documents) :
        /\ store.documents[i].chunk_count >= 2
        /\ Len(StoredChunks(store, store.documents[i].id)) >= 2

\* C11: no chunk is persisted without an embedding.  Every chunk that
\* add_document hands to the store carries a vector, every stored chunk
\* carries one, and a document whose chunks were not all embedded is not
\* stored.
C11_NoChunkWithoutEmbedding ==
    /\ \A i \in 1..Len(store.chunks) : store.chunks[i].embedding # None
    /\ \A t \in InFlight({"add_store"}) :
        /\ \A i \in 1..Len(loc[t].chunks) :
               loc[t].chunks[i].embedding # None
        /\ StoredNothing(store, loc[t].metadata.id)
    /\ \A r \in addLog : ~r.success => StoredNothing(store, r.id)

\* D[O : O + L] as Python slices a list; L = None is no limit.
Slice(D, L, O) ==
    LET idx == {i \in 1..Len(D) : i > O /\ (L # None => i <= O + L)}
    IN  [k \in 1..Cardinality(idx) |-> D[O + k]]

C13_ClearCountsRemoved ==
    [][\A t \in Tasks :
        /\ (pc[t] = "c_store" /\ pc'[t] = "c_ret") =>
            /\ loc'[t].removed = Len(store.documents)
            /\ get_document_count(store') = 0
            /\ list_all_documents(store', None, 0) = << >>
            /\ store.documents = << >> => loc'[t].removed = 0
        /\ (pc[t] = "c_ret" /\ pc'[t] = "idle") =>
            /\ last'.res.success
            /\ last'.res.body.documents_removed = loc[t].removed
      ]_vars

\* C13 witness: after a clear that removed documents, a second clear has
\* answered documents_removed = 0 and the store is empty.
C13_Witness ==
    /\ cleared # {}
    /\ last.op = "clear" /\ last.res.success
    /\ last.res.body.documents_removed = 0
    /\ get_document_count(store) = 0

\* C14: clear_knowledge_base is all-or-nothing.  When its store call has
\* succeeded every document row and every chunk row is gone and the call
\* answers success=true; when it has failed the call answers success=false
\* and every row stored before is still stored.
C14_ClearAllOrNothing ==
    [][\A t \in Tasks :
        /\ (pc[t] = "c_store" /\ pc'[t] = "c_ret") =>
            /\ store'.documents = << >>
            /\ store'.chunks = << >>
        /\ (pc[t] = "c_store" /\ pc'[t] = "idle") =>
            /\ ~last'.res.success
            /\ store' = store
        /\ (pc[t] = "c_ret" /\ pc'[t] = "idle") => last'.res.success
      ]_vars

\* C14 witness: a clear has failed on a store that holds a document of
\* several chunks, which is still stored whole.
C14_Witness ==
    /\ last.op = "clear" /\ ~last.res.success
    /\ last.res.error_type = "knowledge_base_clear_error"
    /\ \E i \in 1..Len(store.documents) :
        /\ store.documents[i].chunk_count >= 2
        /\ StoredWhole(store, store.documents[i].id)

\* Match a comes no later than match b: by distance, then chunk_index, then
\* document_id.
NoLater(a, b) ==
    \/ a.score < b.score
    \/ a.score = b.score /\ a.chunk_index < b.chunk_index
    \/ a.score = b.score /\ a.chunk_index = b.chunk_index
                         /\ a.document_id <= b.document_id

\* The relevance scores of rs do not increase along rs.
NonIncreasing(rs) ==
    \A i, j \in 1..Len(rs) :
        i < j => rs[i].relevance_score >= rs[j].relevance_score

\* C15: the matches search_documents works on are in non-decreasing
\* distance order, equal distances ordered by chunk_index and then by
\* document_id, and the results it builds and returns keep that order:
\* relevance_score does not increase along them.
C15_ResultsRanked ==
    /\ \A t \in Tasks :
        pc[t] = "s_join" =>
            /\ \A i, j \in 1..Len(loc[t].hits) :
                   i < j => NoLater(loc[t].hits[i], loc[t].hits[j])
            /\ NonIncreasing(loc[t].joined)
    /\ (last.op = "search" /\ last.res.success) =>
           NonIncreasing(last.res.body.results)

\* C15 witness: a search has returned three results, the first two at equal
\* distance and the third farther away.
C15_Witness ==
    /\ last.op = "search" /\ last.res.success
    /\ Len(last.res.body.results) = 3
    /\ last.res.body.results[1].relevance_score
         = last.res.body.results[2].relevance_score
    /\ last.res.body.results[2].relevance_score
         > last.res.body.results[3].relevance_score

\* C16: search is deterministic and uncached.  A search_documents call
\* during which the store did not change returns the result list that its
\* query, its limit and that store state determine, whatever calls ran
\* before it or run beside it; so two such calls with the same query and
\* limit on the same store return identical lists.
C16_SearchDeterministic ==
    [][\A t \in Tasks :
        (/\ pc[t] \in SearchPcs /\ pc'[t] = "idle" /\ last'.res.success
         /\ loc[t].snaps = {store}) =>
            last'.res.body.results
                = ResultsOn(store, generate_embedding(Strip(call[t].query)),
                            call[t].limit)
      ]_vars

\* C16 witness: a search has returned several results while a second
\* search with the same query is running on the same store.
C16_Witness ==
    /\ last.op = "search" /\ last.res.success
    /\ Len(last.res.body.results) >= 2
    /\ \E t \in Tasks :
        /\ pc[t] \in {"s_vec", "s_join"}
        /\ call[t].query = last.res.body.query
        /\ loc[t].snaps = {store}

\* The distance of result r from the query.
ResultDistance(r) == 1 - r.relevance_score

\* C17: search_documents(query, limit) answers with result_count equal to
\* the length of results and at most limit; and a call during which the
\* store did not change returns limit results, or one per stored chunk when
\* fewer are stored, such that every stored chunk strictly nearer to the
\* query than a returned one is itself returned.
C17_LimitNearest ==
    [][\A t \in Tasks :
        (pc[t] \in SearchPcs /\ pc'[t] = "idle" /\ last'.res.success) =>
            LET rs == last'.res.body.results
                q == generate_embedding(Strip(call[t].query))
            IN  /\ last'.res.body.result_count = Len(rs)
                /\ Len(rs) <= call[t].limit
                /\ loc[t].snaps = {store} =>
                    /\ Len(rs) = Min(call[t].limit, Len(store.chunks))
                    /\ \A i \in 1..Len(rs) :
                        Cardinality({k \in 1..Len(store.chunks) :
                            Distance(q, store.chunks[k].embedding)
                                < ResultDistance(rs[i])})
                        = Cardinality({j \in 1..Len(rs) :
                            ResultDistance(rs[j]) < ResultDistance(rs[i])})
      ]_vars

\* C17 witness: a search with limit 3 on a store of four chunks has
\* returned three results.
C17_Witness ==
    /\ last.op = "search" /\ last.res.success
    /\ last.res.body.result_count = 3
    /\ Len(store.chunks) = 4

\* C18: every relevance_score in a search_documents response lies in [0,1]
\* and is 1 minus a distance the store reported for a match of that call.
C18_RelevanceInUnitInterval ==
    /\ \A t \in Tasks :
        pc[t] = "s_join" =>
            \A i \in 1..Len(loc[t].joined) :
                \E k \in 1..Len(loc[t].hits) :
                    loc[t].joined[i].relevance_score
                        = 1 - loc[t].hits[k].score
    /\ (last.op = "search" /\ last.res.success) =>
        \A i \in 1..Len(last.res.body.results) :
            /\ last.res.body.results[i].relevance_score >= 0
            /\ last.res.body.results[i].relevance_score <= 1

\* C19: search_documents and list_documents never shorten or empty a result
\* silently.  A successful search returns one result per chunk the store
\* matched, and an empty result only if a store state of the call held no
\* chunk; a successful listing is empty only if the slice asked for was
\* empty in the store it read; every other outcome is success=false.
C19_NoSilentDegradation ==
    [][\A t \in Tasks :
        /\ (pc[t] \in SearchPcs /\ pc'[t] = "idle" /\ last'.res.success) =>
            /\ Len(last'.res.body.results)
                 = (IF pc[t] = "s_join" THEN Len(loc[t].hits) ELSE 0)
            /\ last'.res.body.results = << >> =>
                 \E s \in loc[t].snaps : s.chunks = << >>
        /\ (pc[t] = "l_count" /\ pc'[t] = "idle" /\ last'.res.success
              /\ last'.res.body.documents = << >>) =>
            \E s \in loc[t].snaps :
                Slice(s.documents, call[t].limit, call[t].offset) = << >>
      ]_vars

\* C20: a tool call whose parameters fail validation is answered with a
\* validation error before the pipeline is reached: get_document_service
\* is not called, no service is created or initialised, and no extractor,
\* embedding or store operation runs.
C20_ValidationBeforePipeline ==
    [][(calls' = calls + 1 /\ last'.res.done) =>
        /\ ~last'.res.success
        /\ last'.res.error_type = "validation_error"
        /\ last'.out = "none"
        /\ UNCHANGED <<document_service, services, store, nextId, files,
                       svc, loc, addLog, cleared>>
      ]_vars

\* C20 witness: a list_documents call with a negative offset has been
\* refused on a fresh server, and no service exists.
C20_Witness ==
    /\ last.op = "list" /\ last.res.done
    /\ last.res.error_type = "validation_error"
    /\ services = << >> /\ document_service = 0

\* The failure modes of a file under extractor configuration x, by the
\* error kind that names each.
Faults(file, x) ==
    {k \in {"unsupported_file_type", "file_too_large", "file_read_error",
            "encoding_error"} :
        \/ k = "unsupported_file_type" /\ ~file.supported
        \/ k = "file_too_large"
              /\ Len(Flatten(file.units)) > x.max_file_size
        \/ k = "file_read_error" /\ ~file.readable
        \/ k = "encoding_error" /\ ~file.decodable}

\* C21: add_document answers each file-processing failure (unreadable
\* file, unsupported extension, oversize file, decode failure) with the
\* error_type of that failure mode, a different one for each mode, and with
\* the offending path; an unsupported or oversize file has not been opened;
\* and the call ends there: no embedding and no store operation runs for
\* it, and only a file without a failure mode goes on to them.
C21_FileFailuresDistinct ==
    [][\A t \in Tasks :
        /\ (pc[t] = "call" /\ call[t].op = "add" /\ pc'[t] = "idle"
              /\ last'.out = "returned") =>
            LET p == call[t].file_path
                faults == Faults(files[p], services[svc[t]].content_extractor)
            IN  /\ ~last'.res.success
                /\ last'.res.error_type \in faults
                /\ last'.res.error_details = p
                /\ last'.res.error_type
                       \in {"unsupported_file_type", "file_too_large"} =>
                     (files' = files /\ ~files[p].opened)
                /\ UNCHANGED <<store, addLog>>
        /\ (call'[t].op = "add" /\ pc'[t] \in AddPcs) =>
            Faults(files'[call'[t].file_path],
                   services'[svc'[t]].content_extractor) = {}
      ]_vars

\* C21 witness: an oversize file has been refused with file_too_large and
\* its path, unopened, and nothing is stored.
C21_Witness ==
    /\ last.op = "add" /\ last.res.done
    /\ last.res.error_type = "file_too_large"
    /\ last.res.error_details = "a.txt"
    /\ ~files["a.txt"].opened
    /\ store.documents = << >> /\ store.chunks = << >>

\* The text, the extractor configuration and the chunk contents of the
\* add_document call of task t.
TextOf(t) == Flatten(files[call[t].file_path].units)

ConfigOf(t) == services[svc[t]].content_extractor

ContentsOf(t) == [i \in 1..Len(loc[t].chunks) |-> loc[t].chunks[i].content]

\* The number of characters at the end of prev that cur repeats at its
\* start (the characters of a drawn text are all different).
Repeated(prev, cur) ==
    LET ks == {k \in 0..Min(Len(prev), Len(cur)) :
                  SubSeq(prev, Len(prev) - k + 1, Len(prev))
                      = SubSeq(cur, 1, k)}
    IN  CHOOSE k \in ks : \A j \in ks : j <= k

\* The chunks from the i-th on, joined, each without what it repeats from
\* its predecessor.
RECURSIVE Rejoin(_, _)
Rejoin(cs, i) ==
    IF i > Len(cs) THEN << >>
    ELSE LET r == IF i = 1 THEN 0 ELSE Repeated(cs[i - 1], cs[i])
         IN  SubSeq(cs[i], r + 1, Len(cs[i])) \o Rejoin(cs, i + 1)

\* C22: chunk coverage.  For every text, plain or source, and every valid
\* (chunk_size, chunk_overlap), the chunks joined in index order, each but
\* the first without the overlap it repeats from its predecessor, are the
\* original text: no character is lost or reordered.
C22_ChunkCoverage ==
    \A t \in InFlight(AddPcs) : Rejoin(ContentsOf(t), 1) = TextOf(t)

\* C22 witness: a plain text has been cut into at least three chunks with
\* an overlap, the last chunk shorter than chunk_size.
C22_Witness ==
    \E t \in InFlight(AddPcs) :
        /\ files[call[t].file_path].kind = "text"
        /\ ConfigOf(t).chunk_overlap >= 1
        /\ Len(loc[t].chunks) >= 3
        /\ Len(loc[t].chunks[Len(loc[t].chunks)].content)
              < ConfigOf(t).chunk_size

\* C23: overlap invariant.  For chunk_overlap = o > 0, the last o
\* characters of every chunk of a plain text but the last are the first o
\* characters of the next chunk.
C23_OverlapShared ==
    \A t \in InFlight(AddPcs) :
        LET cs == ContentsOf(t)
            o == ConfigOf(t).chunk_overlap
        IN  (files[call[t].file_path].kind = "text" /\ o > 0) =>
                \A i \in 1..(Len(cs) - 1) :
                    /\ Len(cs[i]) >= o /\ Len(cs[i + 1]) >= o
                    /\ SubSeq(cs[i], Len(cs[i]) - o + 1, Len(cs[i]))
                          = SubSeq(cs[i + 1], 1, o)

\* C23 witness: a plain text has been cut into several chunks with an
\* overlap of at least two characters.
C23_Witness ==
    \E t \in InFlight(AddPcs) :
        /\ files[call[t].file_path].kind = "text"
        /\ ConfigOf(t).chunk_overlap >= 2
        /\ Len(loc[t].chunks) >= 2

\* C24: a plain text of length n under chunk_size s and chunk_overlap o is
\* cut into windows that start at the multiples of s - o: every chunk but
\* the last has s characters, the last is not empty, has at most s
\* characters and ends at n; the chunks carry the indices 0, 1, ... and
\* chunk_count is their number.  For n = 250, s = 100, o = 20 these are
\* three chunks of lengths 100, 100 and at most 100.
C24_WindowShape ==
    \A t \in InFlight(AddPcs) :
        LET text == TextOf(t)
            n == Len(text)
            s == ConfigOf(t).chunk_size
            o == ConfigOf(t).chunk_overlap
            cs == ContentsOf(t)
            k == Len(cs)
        IN  files[call[t].file_path].kind = "text" =>
              /\ \A i \in 1..k :
                    /\ cs[i] = SubSeq(text, (i - 1) * (s - o) + 1,
                                      Min((i - 1) * (s - o) + s, n))
                    /\ i < k => Len(cs[i]) = s
                    /\ loc[t].chunks[i].chunk_index = i - 1
              /\ k > 0 => /\ Len(cs[k]) >= 1 /\ Len(cs[k]) <= s
                          /\ (k - 1) * (s - o) + Len(cs[k]) = n
              /\ k = 0 <=> n = 0
              /\ loc[t].metadata.chunk_count = k
              /\ (n = 250 /\ s = 100 /\ o = 20) =>
                    /\ k = 3
                    /\ Len(cs[1]) = 100 /\ Len(cs[2]) = 100
                    /\ Len(cs[3]) <= 100

\* C24 witness: the 250-character text under chunk_size 100 and
\* chunk_overlap 20 has been cut into three chunks.
C24_Witness ==
    \E t \in InFlight(AddPcs) :
        /\ Len(TextOf(t)) = 250
        /\ ConfigOf(t).chunk_size = 100 /\ ConfigOf(t).chunk_overlap = 20
        /\ loc[t].metadata.chunk_count = 3
        /\ Len(loc[t].chunks[3].content) = 90

\* The characters of a sequence.
Chars(s) == {s[i] : i \in 1..Len(s)}

\* C25: of a source file, a structural unit that fits in chunk_size lies
\* whole in one chunk and in no other; the chunks that hold a unit larger
\* than chunk_size are the windows of that unit alone, cut as plain text is
\* cut, with the overlap.
C25_UnitsKeptWhole ==
    \A t \in InFlight(AddPcs) :
        LET file == files[call[t].file_path]
            s == ConfigOf(t).chunk_size
            o == ConfigOf(t).chunk_overlap
            cs == ContentsOf(t)
        IN  file.kind = "source" =>
              \A j \in 1..Len(file.units) :
                LET u == file.units[j]
                    on == {i \in 1..Len(cs) : Chars(cs[i]) \cap Chars(u) # {}}
                IN  IF Len(u) <= s
                    THEN /\ Cardinality(on) = 1
                         /\ \A i \in on : Chars(u) \subseteq Chars(cs[i])
                    ELSE /\ \A i \in on : Chars(cs[i]) \subseteq Chars(u)
                         /\ \A i \in on : \A h \in 1..Len(cs) :
                               (h > i /\ h \in on) =>
                                   \A m \in i..h : m \in on
                         /\ LET first == CHOOSE i \in on :
                                             \A h \in on : i <= h
                            IN  [m \in 1..Cardinality(on) |->
                                    cs[first + m - 1]]
                                  = SlidingWindow(u, 0, s, o)

\* C25 witness: a source file with a unit that fits and a unit larger than
\* chunk_size has been cut, under an overlap, into at least three chunks.
C25_Witness ==
    \E t \in InFlight(AddPcs) :
        LET file == files[call[t].file_path]
        IN  /\ file.kind = "source"
            /\ ConfigOf(t).chunk_overlap >= 1
            /\ \E j \in 1..Len(file.units) :
                   Len(file.units[j]) > ConfigOf(t).chunk_size
            /\ \E j \in 1..Len(file.units) :
                   /\ Len(file.units[j]) >= 2
                   /\ Len(file.units[j]) <= ConfigOf(t).chunk_size
            /\ Len(loc[t].chunks) >= 3

\* C26: a successful search_documents result carries search statistics
\* that give the embedding model identifier and the total number of
\* documents stored, the documents added and not cleared.
C26_SearchStatistics ==
    (last.op = "search" /\ last.res.success) =>
        /\ "_search_stats" \in DOMAIN last.res.body
        /\ "embedding_model" \in DOMAIN last.res.body["_search_stats"]
        /\ last.res.body["_search_stats"].total_documents
              = get_document_count(store)

\* C27: the content_excerpt of a search result is the content of the
\* matched chunk when that has at most 200 characters, and otherwise its
\* first 200 characters followed by "..."; it starts as the chunk starts
\* and is never longer than 203 characters.
C27_ExcerptTruncated ==
    (last.op = "search" /\ last.res.success) =>
        \A i \in 1..Len(last.res.body.results) :
            LET r == last.res.body.results[i]
                x == r.content_excerpt
            IN  /\ Len(x) <= 203
                /\ \E k \in 1..Len(store.chunks) :
                    LET content == store.chunks[k].content
                    IN  /\ store.chunks[k].document_id = r.document_id
                        /\ Len(content) <= 200 => x = content
                        /\ Len(content) > 200 =>
                              x = SubSeq(content, 1, 200) \o Ellipsis
                        /\ \A j \in 1..Min(Len(content), 200) :
                              x[j] = content[j]

\* C27 witness: a search has returned a chunk of 201 characters with an
\* excerpt of 203.
C27_Witness ==
    /\ last.op = "search" /\ last.res.success
    /\ Len(last.res.body.results) = 1
    /\ Len(store.chunks[1].content) = 201
    /\ Len(last.res.body.results[1].content_excerpt) = 203

\* The positions inside initialize(), called by get_document_service.
InitPcs == {"init_db", "init_model"}

\* C28: get_document_service never returns a DocumentService whose
\* initialize() has not completed successfully, under any interleaving of
\* callers; in particular a caller that arrives while another caller's
\* initialize() is in flight is not handed a service that refuses it as
\* not initialized.
C28_ReturnsInitializedService ==
    \A t \in Tasks :
        pc[t] = "call" =>
            /\ services[svc[t]].db # "new"
            /\ services[svc[t]].model # "unloaded"
            /\ (\E u \in Tasks : pc[u] \in InitPcs /\ svc[u] = svc[t]) =>
                   ensure_initialized(t)

\* C29: the module global never keeps a DocumentService whose
\* initialize() has raised: a service that is not initialized is held by
\* the global only while its initialize() is running, so that a call after
\* a failed initialisation constructs and initialises a service again.
C29_FailedServiceNotKept ==
    (document_service # 0 /\ ~services[document_service].initialized) =>
        \E t \in Tasks : pc[t] \in InitPcs /\ svc[t] = document_service

\* C30: in every state, a DocumentService marked initialized has its
\* database initialised and its model loaded, and neither has been
\* released since.
C30_InitializedMeansReady ==
    \A i \in 1..Len(services) :
        services[i].initialized =>
            (services[i].db = "ready" /\ services[i].model = "loaded")

\* The positions inside DocumentService.cleanup: the model release is
\* pending at cl_embed, the store close at cl_db.
CleanupPcs == {"cl_embed", "cl_db"}

\* C31: when DocumentService.cleanup() returns, the service is no longer
\* marked initialized, and both the release of the embedding model and the
\* close of the store have been invoked, whichever of the two steps failed:
\* cleanup returns from the close of the store, never from the release of
\* the model.
C31_CleanupAlwaysReleases ==
    [][\A t \in Tasks :
        (pc[t] \in CleanupPcs /\ pc'[t] = "idle") =>
            /\ ~services'[svc[t]].initialized
            /\ pc[t] = "cl_db"
      ]_vars

\* The operations of DocumentService that need an initialized service.
Operations == {"add", "list", "search", "clear", "get", "stats"}

\* C32: every DocumentService operation (add_document, list_documents,
\* search_documents, clear_knowledge_base, get_document_by_id,
\* get_statistics) that is called before initialize() has succeeded, or
\* after cleanup() has returned with no initialize() succeeding since, is
\* refused as not initialized at once: it raises before any extractor,
\* embedding or store call is made, and the store, the files and the
\* document ids are left as they were.
C32_RefusedUnlessInitialized ==
    [][\A t \in Tasks :
        (/\ pc[t] = "call" /\ pc'[t] # "call"
         /\ call[t].op \in Operations
         /\ \/ services[svc[t]].model = "unloaded"
            \/ services[svc[t]].cleaned) =>
            /\ pc'[t] = "idle"
            /\ last'.out = "raised"
            /\ UNCHANGED <<store, files, nextId>>
      ]_vars

\* C33: the pagination block of every successful list_documents response
\* describes one store state: returned_count is at most total_count - offset,
\* or 0 when the offset is beyond the total, also when add_document or
\* clear_knowledge_base runs beside the listing.
C33_PaginationOneState ==
    (last.op = "list" /\ last.res.success) =>
        LET rest == last.res.body.total_count - last.res.body.offset
        IN  last.res.body.returned_count <= (IF rest > 0 THEN rest ELSE 0)

\* Result r describes the document of file path: its excerpt is a chunk of
\* that file and its chunk_count the number of the file's chunks.
Describes(r, path) ==
    /\ r.document_path = path
    /\ r.metadata.chunk_count = Len(Windows(FileText(path), 0))
    /\ \E k \in 1..Len(Windows(FileText(path), 0)) :
           r.content_excerpt = Excerpt(Windows(FileText(path), 0)[k])

\* C34: every entry of a search_documents result describes one stored
\* document consistently: its metadata.id is its document_id, and its
\* document_path, its chunk_count and its excerpt are those of the document
\* that is stored under that id when the match is joined.  A match whose
\* document is not found at join time is left out, the other matches are
\* added in order, and result_count counts the entries returned.
C34_ResultsDescribeDocuments ==
    [][\A t \in Tasks :
        (/\ pc[t] = "s_join"
         /\ \/ pc'[t] = "s_join" /\ loc'[t].k = loc[t].k + 1
            \/ pc'[t] = "idle" /\ last'.res.success) =>
            LET hit == loc[t].hits[loc[t].k]
                before == loc[t].joined
                after == IF pc'[t] = "idle" THEN last'.res.body.results
                         ELSE loc'[t].joined
            IN  /\ IF \E i \in 1..Len(store.documents) :
                          store.documents[i].id = hit.document_id
                   THEN /\ Len(after) = Len(before) + 1
                        /\ SubSeq(after, 1, Len(before)) = before
                        /\ after[Len(after)].document_id = hit.document_id
                   ELSE after = before
                /\ \A i \in 1..Len(after) :
                       /\ after[i].metadata.id = after[i].document_id
                       /\ \E p \in Paths : Describes(after[i], p)
                       /\ \A j \in 1..Len(store.documents) :
                              store.documents[j].id = after[i].document_id
                                  => Describes(after[i],
                                               store.documents[j].file_path)
                /\ pc'[t] = "idle" =>
                       last'.res.body.result_count = Len(after)
      ]_vars

\* C34 witness: a search has matched both chunks of a document, a clear has
\* removed the document between the two joins, and the search has returned
\* the one result that was joined before.
C34_Witness ==
    /\ last.op = "search" /\ last.res.success
    /\ last.res.body.result_count = 1
    /\ last.res.body.results[1].metadata.chunk_count = 2
    /\ last.res.body.results[1].metadata.id \in cleared
    /\ store.documents = << >>

\* The operations of the tools.
ToolOps == {"add", "list", "search", "clear"}

\* C35: every DocumentService that serves a tool request is built from the
\* configuration main() validated at startup, the command-line overrides
\* (such as --db-path) included; no request is served by a service with
\* another configuration.
C35_ServedWithValidatedConfig ==
    \A t \in Tasks :
        (svc[t] # 0 /\ call[t].op \in ToolOps) =>
            /\ process.main = "started"
            /\ validate(process.config)
            /\ services[svc[t]].config = process.config

\* C36: search_documents called on an initialized service with an empty or
\* whitespace-only query returns success=false with error_type
\* 'invalid_query' at once: it reaches no await, so neither the embedding
\* component nor the store is called, and nothing of the store changes.
C36_EmptyQueryRefused ==
    [][\A t \in Tasks :
        (/\ pc[t] = "call" /\ pc'[t] # "call"
         /\ call[t].op = "search"
         /\ \A i \in 1..Len(call[t].query) : call[t].query[i] = 0
         /\ ensure_initialized(t)) =>
            /\ pc'[t] = "idle"
            /\ last'.out = "returned"
            /\ ~last'.res.success
            /\ last'.res.error_type = "invalid_query"
            /\ UNCHANGED <<store, services, files>>
      ]_vars

\* C36 witness: a search with a whitespace-only query has been answered
\* with invalid_query by an initialized service.
C36_Witness ==
    /\ last.op = "search" /\ last.res.done
    /\ last.res.error_type = "invalid_query"
    /\ last.res.error_details = <<0>>
    /\ services[1].initialized

\* The documents of D from position O onward.
From(D, O) ==
    [k \in 1..(IF Len(D) > O THEN Len(D) - O ELSE 0) |-> D[O + k]]

\* C37: list_documents with no limit returns every document from position
\* offset onward, in order; and the list_documents tool treats limit=0 as no
\* limit: the call reaches the pipeline with limit None, never with limit
\* 0, and its success response holds all documents from offset onward.
C37_NoLimitListsAll ==
    /\ \A t \in Tasks : call[t].op = "list" => call[t].limit # 0
    /\ \A t \in Tasks :
        (pc[t] = "l_count" /\ call[t].limit = None) =>
            loc[t].docs = From(store.documents, call[t].offset)
    /\ (last.op = "list" /\ last.res.success
          /\ last.res.body.limit = None) =>
        /\ last.res.body.documents
             = From(store.documents, last.res.body.offset)
        /\ last.res.body.returned_count
             = Len(From(store.documents, last.res.body.offset))

\* C37 witness: a list_documents tool call with limit=0 and offset=1 on a
\* store of three documents has succeeded with the second and the third.
C37_Witness ==
    /\ last.op = "list" /\ last.res.success
    /\ last.res.body.limit = None /\ last.res.body.offset = 1
    /\ Len(store.documents) = 3
    /\ last.res.body.documents = <<store.documents[2], store.documents[3]>>

\* The position in its text at which a chunk starts (the characters of a
\* drawn text are its positions).
StartOf(content) == content[1] - 1

\* C38: for every text and every configuration with 0 <= chunk_overlap <
\* chunk_size, sliding-window chunking terminates with finitely many chunks,
\* at most one per character: the first window starts at 0, each window
\* starts chunk_size - chunk_overlap, at least one character, after the
\* previous one, and every window starts inside the text.
C38_WindowsAdvance ==
    \A t \in InFlight(AddPcs) :
        LET n == Len(TextOf(t))
            s == ConfigOf(t).chunk_size
            o == ConfigOf(t).chunk_overlap
            cs == ContentsOf(t)
        IN  (0 <= o /\ o < s) =>
              /\ Len(cs) <= n
              /\ \A i \in 1..Len(cs) : cs[i] # << >>
              /\ files[call[t].file_path].kind = "text" =>
                    /\ Len(cs) >= 1 => StartOf(cs[1]) = 0
                    /\ \A i \in 1..(Len(cs) - 1) :
                          /\ StartOf(cs[i + 1]) - StartOf(cs[i]) = s - o
                          /\ StartOf(cs[i + 1]) > StartOf(cs[i])
                    /\ \A i \in 1..Len(cs) : StartOf(cs[i]) < n

\* C38 witness: with chunk_overlap = chunk_size - 1 >= 2 a plain text has
\* been cut into at least three chunks, each one character after the other.
C38_Witness ==
    \E t \in InFlight(AddPcs) :
        /\ files[call[t].file_path].kind = "text"
        /\ ConfigOf(t).chunk_overlap >= 2
        /\ ConfigOf(t).chunk_overlap = ConfigOf(t).chunk_size - 1
        /\ Len(loc[t].chunks) >= 3
        /\ StartOf(loc[t].chunks[3].content) = 2

====
